---------------------------- MODULE Spec2Model ----------------------------
(***************************************************************************)
(* A model of haplodemo's GraphicsScene (src/src/itaxotools/haplodemo/     *)
(* scene.py): the topology operations (create_vertex, create_node,         *)
(* create_edge, add_child, add_sibling), the hit-test getItemAtPos and the *)
(* hover / grab handling of the pointer events.                            *)
(*                                                                         *)
(* Items are pairs <<class, index>>.  The classes are Node, Vertex, Edge,  *)
(* NodeLabel and EdgeLabel; Node is a subclass of Vertex, the two label    *)
(* classes stand for the Label owned by a Node and by an Edge.             *)
(*                                                                         *)
(* The specifications share the variables:                                 *)
(*   SpecTopo       the construction of a scene from an empty one,         *)
(*   SpecHit        one call of getItemAtPos on every bounded input,       *)
(*   Spec           the pointer events on a constructed scene,             *)
(*   SpecDemo       the pointer events on the Scene of demo.py,            *)
(*   SpecExport     the pointer events and the exports of the view,        *)
(*   SpecDivisions  set_divisions_from_keys and set_palette,               *)
(*   SpecSetData    one call of setData on every bounded input,            *)
(*   SpecMutations  the three mutations of a DivisionListModel,            *)
(*   SpecSnapshot   the lookups in a color map after mutations,            *)
(*   SpecSettings   the writes of the Settings on bound objects,           *)
(*   SpecClear      the same with clear(),                                 *)
(*   SpecDrag       the drags of the vertices of a tree,                   *)
(*   SpecStyle      styleEdges and styleNodes,                             *)
(*   SpecRefill     the pointer events with clear() and new items.         *)
(***************************************************************************)
EXTENDS Integers, Sequences, FiniteSets, TLC

VARIABLES
    scene,      \* the GraphicsScene, the objects it created and what its calls did to them
    settings,   \* the Settings object (the properties the scene reads)
    buttons,    \* the mouse buttons held down (what event.buttons() reports)
    lastOp      \* the last operation called: [op, a, b]

vars == <<scene, settings, buttons, lastOp>>

-----------------------------------------------------------------------------
(* Bounds *)

MaxNodes == 2
MaxVertices == 1
MaxEdges == 2
MaxUnder == 3
MaxPointer == 1
MaxDist == 2
MaxKeys == 2
MaxChars == 3
MaxDrags == 2
MaxSegments == 4
MaxCutoff == 3

-----------------------------------------------------------------------------
(* The universe of items *)

None == <<"None", 0>>

Nodes == {<<"Node", i>> : i \in 1..MaxNodes}
PlainVertices == {<<"Vertex", i>> : i \in 1..MaxVertices}
VertexIds == Nodes \cup PlainVertices
EdgeIds == {<<"Edge", i>> : i \in 1..MaxEdges}
NodeLabels == {<<"NodeLabel", i>> : i \in 1..MaxNodes}
EdgeLabels == {<<"EdgeLabel", i>> : i \in 1..MaxEdges}
Universe == VertexIds \cup EdgeIds \cup NodeLabels \cup EdgeLabels

\* isinstance(item, Vertex): Node derives from Vertex
IsVertex(item) == item[1] \in {"Vertex", "Node"}
\* isinstance(item, Node)
IsNode(item) == item[1] = "Node"
\* isinstance(item, Label)
IsLabel(item) == item[1] \in {"NodeLabel", "EdgeLabel"}
\* isinstance(item, Edge)
IsEdge(item) == item[1] = "Edge"

\* item.label of a Node or an Edge
LabelOf(item) ==
    IF item[1] = "Node" THEN <<"NodeLabel", item[2]>> ELSE <<"EdgeLabel", item[2]>>

\* the child items that enter and leave a scene with their owner: the owned Label
ChildItems(item) == IF IsNode(item) \/ IsEdge(item) THEN {LabelOf(item)} ELSE {}

NoHit ==
    [pc |-> "none", under |-> <<>>, dist |-> <<>>, ignore_edges |-> FALSE,
     ignore_labels |-> "None", result |-> None]

-----------------------------------------------------------------------------
(* GraphicsScene.__init__ *)

EmptyScene ==
    [vertices |-> {},       \* the Vertex / Node objects created by the scene
     edges |-> <<>>,        \* the Edge objects created, in order: Edge k is edges[k]
     children |-> {},       \* <<parent, child, edge>>: the child adjacency of parent
     siblings |-> {},       \* <<a, b, edge>>: the sibling adjacency of a
     items |-> {},          \* the items whose scene() is this scene
     binder |-> {},         \* the bindings registered with self.binder
     hovered_item |-> None,
     mouseGrabberItem |-> None,
     hover_count |-> [i \in Universe |-> 0],  \* hoverEnter minus hoverLeave calls
     delivered |-> <<>>,    \* the item event handlers called by the last operation
     hit |-> NoHit]         \* the last call of getItemAtPos

-----------------------------------------------------------------------------
(* Topology *)

\* QGraphicsScene.addItem: the item and its child items now belong to the scene;
\* adding an item that is already in the scene changes nothing
addItem(s, item) == [s EXCEPT !.items = @ \cup {item} \cup ChildItems(item)]

create_vertex(s, item) ==
    [s EXCEPT !.vertices = @ \cup {item},
              !.binder = @ \cup {<<"rotational_movement", item, "set_rotational_setting">>,
                                 <<"recursive_movement", item, "set_recursive_setting">>,
                                 <<"highlight_color", item, "set_highlight_color">>}]

\* create_node without line 337: recursive_movement is not bound
create_node_no_recursive(s, item) ==
    [s EXCEPT !.vertices = @ \cup {item},
              !.binder = @ \cup {<<"colorMapChanged", item, "update_colors">>,
                                 <<"rotational_movement", item, "set_rotational_setting">>,
                                 <<"label_movement", LabelOf(item), "set_locked">>,
                                 <<"highlight_color", LabelOf(item), "set_highlight_color">>,
                                 <<"highlight_color", item, "set_highlight_color">>}]

create_node(s, item) ==
    [s EXCEPT !.vertices = @ \cup {item},
              !.binder = @ \cup {<<"colorMapChanged", item, "update_colors">>,
                                 <<"rotational_movement", item, "set_rotational_setting">>,
                                 <<"recursive_movement", item, "set_recursive_setting">>,
                                 <<"label_movement", LabelOf(item), "set_locked">>,
                                 <<"highlight_color", LabelOf(item), "set_highlight_color">>,
                                 <<"highlight_color", item, "set_highlight_color">>}]

\* the Edge object the next create_edge call makes
NewEdge(s) == <<"Edge", Len(s.edges) + 1>>

create_edge(s, node1, node2, segments) ==
    LET item == NewEdge(s) IN
    [s EXCEPT !.edges = Append(@, [node1 |-> node1, node2 |-> node2, segments |-> segments]),
              !.binder = @ \cup {<<"highlight_color", item, "set_highlight_color">>,
                                 <<"label_movement", LabelOf(item), "set_locked">>,
                                 <<"highlight_color", LabelOf(item), "set_highlight_color">>}]

\* the parents of a vertex in the child adjacency
ParentsOf(s, child) == {t[1] : t \in {u \in s.children : u[2] = child}}

\* Vertex.addChild: registers (child, edge) under the parent's child adjacency;
\* rejected, with no mutation, if the child already has a parent or is the parent
addChild(s, parent, child, edge) ==
    IF parent = child \/ ParentsOf(s, child) # {}
    THEN s
    ELSE [s EXCEPT !.children = @ \cup {<<parent, child, edge>>}]

\* Vertex.addSibling: registers the edge in both vertices' sibling adjacency
addSibling(s, vertex, sibling, edge) ==
    [s EXCEPT !.siblings = @ \cup {<<vertex, sibling, edge>>, <<sibling, vertex, edge>>}]

add_child(s, parent, child, segments) ==
    LET edge == NewEdge(s)
        s1 == create_edge(s, parent, child, segments)
        s2 == addChild(s1, parent, child, edge)
        s3 == addItem(s2, edge)
    IN  addItem(s3, child)

\* add_sibling with the last two lines of add_child: the first vertex is added too
add_sibling_adds_vertex(s, vertex, sibling, segments) ==
    LET edge == NewEdge(s)
        s1 == create_edge(s, vertex, sibling, segments)
        s2 == addSibling(s1, vertex, sibling, edge)
        s3 == addItem(s2, edge)
        s4 == addItem(s3, vertex)
    IN  IF sibling \notin s4.items THEN addItem(s4, sibling) ELSE s4

add_sibling(s, vertex, sibling, segments) ==
    LET edge == NewEdge(s)
        s1 == create_edge(s, vertex, sibling, segments)
        s2 == addSibling(s1, vertex, sibling, edge)
        s3 == addItem(s2, edge)
    IN  IF sibling \notin s3.items THEN addItem(s3, sibling) ELSE s3

SegmentChoices == {1, 2}

Op(op, a, b) == [op |-> op, a |-> a, b |-> b]

CreateVertex ==
    \E item \in PlainVertices \ scene.vertices :
        /\ scene' = create_vertex(scene, item)
        /\ lastOp' = Op("create_vertex", item, None)
        /\ UNCHANGED <<settings, buttons>>

CreateNode ==
    \E item \in Nodes \ scene.vertices :
        /\ scene' = create_node(scene, item)
        /\ lastOp' = Op("create_node", item, None)
        /\ UNCHANGED <<settings, buttons>>

AddItem ==
    \E item \in scene.vertices \ scene.items :
        /\ scene' = addItem(scene, item)
        /\ lastOp' = Op("addItem", item, None)
        /\ UNCHANGED <<settings, buttons>>

AddChild ==
    \E parent \in scene.vertices, child \in scene.vertices, segments \in SegmentChoices :
        /\ Len(scene.edges) < MaxEdges
        /\ scene' = add_child(scene, parent, child, segments)
        /\ lastOp' = Op("add_child", parent, child)
        /\ UNCHANGED <<settings, buttons>>

AddSibling ==
    \E vertex \in scene.vertices, sibling \in scene.vertices, segments \in SegmentChoices :
        /\ Len(scene.edges) < MaxEdges
        /\ scene' = add_sibling(scene, vertex, sibling, segments)
        /\ lastOp' = Op("add_sibling", vertex, sibling)
        /\ UNCHANGED <<settings, buttons>>

\* Settings(): label_movement = Property(bool, False)
InitSettings == [label_movement |-> FALSE]

InitTopo ==
    /\ scene = EmptyScene
    /\ settings = InitSettings
    /\ buttons = {}
    /\ lastOp = Op("init", None, None)

NextTopo == CreateVertex \/ CreateNode \/ AddItem \/ AddChild \/ AddSibling

SpecTopo == InitTopo /\ [][NextTopo]_vars

-----------------------------------------------------------------------------
(* Hit-testing *)

\* float('inf'), above every distance of the model
Inf == MaxDist + 1

\* the loop of getItemAtPos over super().items(pos), top-most item first, from
\* position i on; dist[i] is point.distanceToLine(...) for the Edge under[i]
\* the loop with the comparison of the distances not strict
RECURSIVE getItemAtPos_loop_le(_, _, _, _, _, _, _)
getItemAtPos_loop_le(under, dist, i, ignore_edges, ignore_labels, closest_edge_item, closest_edge_distance) ==
    IF i > Len(under)
    THEN IF closest_edge_item # None THEN closest_edge_item ELSE None
    ELSE LET item == under[i] IN
         IF IsVertex(item) THEN item
         ELSE IF IsLabel(item) /\ ~ignore_labels THEN item
         ELSE IF IsEdge(item) /\ ~ignore_edges /\ dist[i] <= closest_edge_distance
              THEN getItemAtPos_loop_le(under, dist, i + 1, ignore_edges, ignore_labels,
                                        item, dist[i])
              ELSE getItemAtPos_loop_le(under, dist, i + 1, ignore_edges, ignore_labels,
                                        closest_edge_item, closest_edge_distance)

\* the loop with a Vertex giving way to an edge found above it
RECURSIVE getItemAtPos_loop_edge_wins(_, _, _, _, _, _, _)
getItemAtPos_loop_edge_wins(under, dist, i, ignore_edges, ignore_labels, closest_edge_item, closest_edge_distance) ==
    IF i > Len(under)
    THEN IF closest_edge_item # None THEN closest_edge_item ELSE None
    ELSE LET item == under[i] IN
         IF IsVertex(item) THEN (IF closest_edge_item # None THEN closest_edge_item ELSE item)
         ELSE IF IsLabel(item) /\ ~ignore_labels THEN item
         ELSE IF IsEdge(item) /\ ~ignore_edges /\ dist[i] < closest_edge_distance
              THEN getItemAtPos_loop_edge_wins(under, dist, i + 1, ignore_edges, ignore_labels,
                                               item, dist[i])
              ELSE getItemAtPos_loop_edge_wins(under, dist, i + 1, ignore_edges, ignore_labels,
                                               closest_edge_item, closest_edge_distance)

RECURSIVE getItemAtPos_loop(_, _, _, _, _, _, _)
getItemAtPos_loop(under, dist, i, ignore_edges, ignore_labels, closest_edge_item, closest_edge_distance) ==
    IF i > Len(under)
    THEN IF closest_edge_item # None THEN closest_edge_item ELSE None
    ELSE LET item == under[i] IN
         IF IsVertex(item) THEN item
         ELSE IF IsLabel(item) /\ ~ignore_labels THEN item
         ELSE IF IsEdge(item) /\ ~ignore_edges /\ dist[i] < closest_edge_distance
              THEN getItemAtPos_loop(under, dist, i + 1, ignore_edges, ignore_labels,
                                     item, dist[i])
              ELSE getItemAtPos_loop(under, dist, i + 1, ignore_edges, ignore_labels,
                                     closest_edge_item, closest_edge_distance)

\* the default of ignore_labels without its negation
IgnoreLabels_unnegated(ignore_labels, label_movement) ==
    IF ignore_labels = "None" THEN label_movement ELSE ignore_labels = "True"

\* the value of ignore_labels the loop uses: the argument is "None" (not given),
\* "True" or "False"
IgnoreLabels(ignore_labels, label_movement) ==
    IF ignore_labels = "None" THEN ~label_movement ELSE ignore_labels = "True"

\* a hit-test that looks for a Vertex first and at the rest of the stack after
getItemAtPos_vertex_first(under, dist, ignore_edges, ignore_labels, label_movement) ==
    LET vertices == {i \in 1..Len(under) : IsVertex(under[i])} IN
    IF vertices # {}
    THEN under[CHOOSE i \in vertices : \A j \in vertices : i <= j]
    ELSE getItemAtPos_loop(under, dist, 1, ignore_edges,
                           IgnoreLabels(ignore_labels, label_movement), None, Inf)

getItemAtPos(under, dist, ignore_edges, ignore_labels, label_movement) ==
    getItemAtPos_loop(under, dist, 1, ignore_edges,
                      IgnoreLabels(ignore_labels, label_movement), None, Inf)

\* the scene after a call of getItemAtPos, which is recorded in hit
HitTest(s, under, dist, ignore_edges, ignore_labels, label_movement) ==
    [s EXCEPT !.hit = [pc |-> "done", under |-> under, dist |-> dist,
                       ignore_edges |-> ignore_edges, ignore_labels |-> ignore_labels,
                       result |-> getItemAtPos(under, dist, ignore_edges, ignore_labels,
                                               label_movement)]]

-----------------------------------------------------------------------------
(* Pointer events *)

\* a call of an event handler of an item
Deliver(s, event, item) == [s EXCEPT !.delivered = Append(@, <<event, item>>)]

hoverEnterEvent(s, item) ==
    Deliver([s EXCEPT !.hover_count[item] = @ + 1], "hoverEnterEvent", item)

hoverLeaveEvent(s, item) ==
    Deliver([s EXCEPT !.hover_count[item] = @ - 1], "hoverLeaveEvent", item)

hoverMoveEvent(s, item) == Deliver(s, "hoverMoveEvent", item)

\* mouseLeaveEvent without line 158: the hovered item is told, the field is kept
mouseLeaveEvent_no_reset(s) ==
    IF s.hovered_item # None
    THEN hoverLeaveEvent(s, s.hovered_item)
    ELSE s

mouseLeaveEvent(s) ==
    IF s.hovered_item # None
    THEN [hoverLeaveEvent(s, s.hovered_item) EXCEPT !.hovered_item = None]
    ELSE s

\* mouseMoveEvent without line 200: the old hovered item is not told
mouseMoveEvent_no_leave(s, event, label_movement) ==
    IF s.mouseGrabberItem # None \/ event.buttons # {}
    THEN IF s.mouseGrabberItem # None
         THEN Deliver(s, "mouseMoveEvent", s.mouseGrabberItem)
         ELSE s
    ELSE LET s1 == HitTest(s, event.under, event.dist, FALSE, "None", label_movement)
             item == s1.hit.result
         IN  IF s1.hovered_item # None /\ item = s1.hovered_item
             THEN hoverMoveEvent(s1, item)
             ELSE LET s3 == [s1 EXCEPT !.hovered_item = item]
                  IN  IF item # None THEN hoverEnterEvent(s3, item) ELSE s3

\* mouseMoveEvent without lines 187-189: the hover hit test runs under a grab too
mouseMoveEvent_hover_under_grab(s, event, label_movement) ==
    LET s0 == IF s.mouseGrabberItem # None
              THEN Deliver(s, "mouseMoveEvent", s.mouseGrabberItem)
              ELSE s
        s1 == HitTest(s0, event.under, event.dist, FALSE, "None", label_movement)
        item == s1.hit.result
    IN  IF s1.hovered_item # None /\ item = s1.hovered_item
        THEN hoverMoveEvent(s1, item)
        ELSE LET s2 == IF s1.hovered_item # None
                       THEN hoverLeaveEvent(s1, s1.hovered_item)
                       ELSE s1
                 s3 == [s2 EXCEPT !.hovered_item = item]
             IN  IF item # None THEN hoverEnterEvent(s3, item) ELSE s3

\* mouseMoveEvent with the hit test of mousePressEvent: ignore_edges=True
mouseMoveEvent_ignore_edges(s, event, label_movement) ==
    IF s.mouseGrabberItem # None \/ event.buttons # {}
    THEN IF s.mouseGrabberItem # None
         THEN Deliver(s, "mouseMoveEvent", s.mouseGrabberItem)
         ELSE s
    ELSE LET s1 == HitTest(s, event.under, event.dist, TRUE, "None", label_movement)
             item == s1.hit.result
         IN  IF s1.hovered_item # None /\ item = s1.hovered_item
             THEN hoverMoveEvent(s1, item)
             ELSE LET s2 == IF s1.hovered_item # None
                            THEN hoverLeaveEvent(s1, s1.hovered_item)
                            ELSE s1
                      s3 == [s2 EXCEPT !.hovered_item = item]
                  IN  IF item # None THEN hoverEnterEvent(s3, item) ELSE s3

\* event is [button, buttons, under, dist]: the button that caused it, the buttons
\* held, the items under scenePos() and their distances
mouseMoveEvent(s, event, label_movement) ==
    IF s.mouseGrabberItem # None \/ event.buttons # {}
    THEN \* super().mouseMoveEvent(event): Qt sends the event to the mouse grabber
         IF s.mouseGrabberItem # None
         THEN Deliver(s, "mouseMoveEvent", s.mouseGrabberItem)
         ELSE s
    ELSE LET s1 == HitTest(s, event.under, event.dist, FALSE, "None", label_movement)
             item == s1.hit.result
         IN  IF s1.hovered_item # None /\ item = s1.hovered_item
             THEN hoverMoveEvent(s1, item)
             ELSE LET s2 == IF s1.hovered_item # None
                            THEN hoverLeaveEvent(s1, s1.hovered_item)
                            ELSE s1
                      s3 == [s2 EXCEPT !.hovered_item = item]
                  IN  IF item # None THEN hoverEnterEvent(s3, item) ELSE s3

\* mousePressEvent with the hit test of mouseMoveEvent: edges are not ignored
mousePressEvent_with_edges(s, event, label_movement) ==
    LET s1 == IF event.button = "LeftButton"
              THEN LET h == HitTest(s, event.under, event.dist, FALSE, "None", label_movement)
                       item == h.hit.result
                   IN  IF item # None
                       THEN [Deliver(h, "mousePressEvent", item)
                                EXCEPT !.mouseGrabberItem = item]
                       ELSE h
              ELSE s
    IN  mouseMoveEvent(s1, event, label_movement)

mousePressEvent(s, event, label_movement) ==
    LET s1 == IF event.button = "LeftButton"
              THEN LET h == HitTest(s, event.under, event.dist, TRUE, "None", label_movement)
                       item == h.hit.result
                   IN  IF item # None
                       THEN [Deliver(h, "mousePressEvent", item)
                                EXCEPT !.mouseGrabberItem = item]
                       ELSE h
              ELSE s
    IN  mouseMoveEvent(s1, event, label_movement)

\* mouseReleaseEvent without line 176: no mouseMoveEvent after the release
mouseReleaseEvent_no_move(s, event, label_movement) ==
    IF event.button = "LeftButton" /\ s.mouseGrabberItem # None
    THEN [Deliver(s, "mouseReleaseEvent", s.mouseGrabberItem)
             EXCEPT !.mouseGrabberItem = None]
    ELSE s

mouseReleaseEvent(s, event, label_movement) ==
    LET s1 == IF event.button = "LeftButton" /\ s.mouseGrabberItem # None
              THEN [Deliver(s, "mouseReleaseEvent", s.mouseGrabberItem)
                       EXCEPT !.mouseGrabberItem = None]
              ELSE s
    IN  mouseMoveEvent(s1, event, label_movement)

mouseDoubleClickEvent(s, event, label_movement) ==
    IF event.button = "LeftButton"
    THEN LET h == HitTest(s, event.under, event.dist, FALSE, "None", label_movement)
             item == h.hit.result
         IN  IF item # None
             THEN Deliver(Deliver(h, "mouseDoubleClickEvent", item), "mouseReleaseEvent", item)
             ELSE h
    ELSE s

-----------------------------------------------------------------------------
(* The pointer events on a constructed scene: Spec *)

\* what super().items(pos) can return: the items of the scene under a point, each
\* once, top-most first, at most n of them
ItemsAt(s, n) ==
    UNION {{u \in [1..k -> s.items] : \A i \in 1..k, j \in 1..k : i # j => u[i] # u[j]}
           : k \in 0..n}

\* the distances of a point to the lines of the edges of under (0 for the other items)
Dists(under) ==
    {d \in [1..Len(under) -> 0..MaxDist] : \A i \in 1..Len(under) : ~IsEdge(under[i]) => d[i] = 0}

\* the pointer of Spec is on the line of every edge under it: the scene of Spec has
\* one edge, and the choice among several edges is SpecHit's
PointerDists(under) == {[i \in 1..Len(under) |-> 0]}

Buttons == {"LeftButton", "RightButton"}

Event(button, held, under, dist) ==
    [button |-> button, buttons |-> held, under |-> under, dist |-> dist]

\* a new operation starts: no item handler has been called by it yet
Begin(s) == [s EXCEPT !.delivered = <<>>]

\* the operation, the hovered item and the mouse grabber it found
MouseOp(op) == Op(op, scene.hovered_item, scene.mouseGrabberItem)

MouseMove ==
    \E under \in ItemsAt(scene, MaxPointer) : \E dist \in PointerDists(under) :
        /\ scene' = mouseMoveEvent(Begin(scene), Event("NoButton", buttons, under, dist),
                                   settings.label_movement)
        /\ lastOp' = MouseOp("mouseMoveEvent")
        /\ UNCHANGED <<settings, buttons>>

MousePress ==
    \E button \in Buttons \ buttons :
    \E under \in ItemsAt(scene, MaxPointer) : \E dist \in PointerDists(under) :
        /\ buttons' = buttons \cup {button}
        /\ scene' = mousePressEvent(Begin(scene), Event(button, buttons', under, dist),
                                    settings.label_movement)
        /\ lastOp' = MouseOp("mousePressEvent")
        /\ UNCHANGED settings

MouseRelease ==
    \E button \in buttons :
    \E under \in ItemsAt(scene, MaxPointer) : \E dist \in PointerDists(under) :
        /\ buttons' = buttons \ {button}
        /\ scene' = mouseReleaseEvent(Begin(scene), Event(button, buttons', under, dist),
                                      settings.label_movement)
        /\ lastOp' = MouseOp("mouseReleaseEvent")
        /\ UNCHANGED settings

\* Qt sends the second press of a double click as a double-click event
MouseDoubleClick ==
    \E button \in Buttons \ buttons :
    \E under \in ItemsAt(scene, MaxPointer) : \E dist \in PointerDists(under) :
        /\ buttons' = buttons \cup {button}
        /\ scene' = mouseDoubleClickEvent(Begin(scene), Event(button, buttons', under, dist),
                                          settings.label_movement)
        /\ lastOp' = MouseOp("mouseDoubleClickEvent")
        /\ UNCHANGED settings

\* GraphicsScene.event with a GraphicsSceneLeave event
SceneLeave ==
    /\ scene' = mouseLeaveEvent(Begin(scene))
    /\ lastOp' = MouseOp("GraphicsSceneLeave")
    /\ UNCHANGED <<settings, buttons>>

\* a write of settings.label_movement
SetLabelMovement ==
    \E value \in BOOLEAN :
        /\ settings' = [settings EXCEPT !.label_movement = value]
        /\ scene' = Begin(scene)
        /\ lastOp' = MouseOp("label_movement")
        /\ UNCHANGED buttons

\* a scene built the way addNodes builds one: a node, and a vertex as its child
MouseScene ==
    LET node1 == <<"Node", 1>>
        vertex1 == <<"Vertex", 1>>
        s1 == addItem(create_node(EmptyScene, node1), node1)
    IN  add_child(create_vertex(s1, vertex1), node1, vertex1, 2)

Init ==
    /\ scene = MouseScene
    /\ settings = InitSettings
    /\ buttons = {}
    /\ lastOp = Op("init", None, None)

Next ==
    \/ MouseMove
    \/ MousePress
    \/ MouseRelease
    \/ MouseDoubleClick
    \/ SceneLeave
    \/ SetLabelMovement

Spec == Init /\ [][Next]_vars

-----------------------------------------------------------------------------
(* One call of getItemAtPos on every bounded input: SpecHit *)

\* a scene built the way addNodes builds one: a node, a node as its child and a
\* vertex as the sibling of the child
HitScene ==
    LET node1 == <<"Node", 1>>
        node2 == <<"Node", 2>>
        vertex1 == <<"Vertex", 1>>
        s1 == addItem(create_node(EmptyScene, node1), node1)
        s2 == add_child(create_node(s1, node2), node1, node2, 2)
    IN  add_sibling(create_vertex(s2, vertex1), node2, vertex1, 1)

InitHit ==
    /\ \E under \in ItemsAt(HitScene, MaxUnder) : \E dist \in Dists(under) :
       \E ignore_edges \in BOOLEAN, ignore_labels \in {"None", "True", "False"} :
           scene = [HitScene EXCEPT !.hit = [pc |-> "call", under |-> under, dist |-> dist,
                                             ignore_edges |-> ignore_edges,
                                             ignore_labels |-> ignore_labels,
                                             result |-> None]]
    /\ settings \in {[label_movement |-> value] : value \in BOOLEAN}
    /\ buttons = {}
    /\ lastOp = Op("init", None, None)

CallGetItemAtPos ==
    /\ scene.hit.pc = "call"
    /\ scene' = HitTest(scene, scene.hit.under, scene.hit.dist, scene.hit.ignore_edges,
                        scene.hit.ignore_labels, settings.label_movement)
    /\ lastOp' = Op("getItemAtPos", None, None)
    /\ UNCHANGED <<settings, buttons>>

NextHit == CallGetItemAtPos

SpecHit == InitHit /\ [][NextHit]_vars

-----------------------------------------------------------------------------
(* Claims about the topology, under SpecTopo *)

\* the step is the call add_child(a, b)
IsAddChildStep == lastOp'.op = "add_child"

\* vertices a and b are linked by a tree (parent-child) edge
TreeLinked(s, a, b) == \E t \in s.children : {t[1], t[2]} = {a, b}
\* vertices a and b are linked by a sibling edge
SiblingLinked(s, a, b) == \E t \in s.siblings : {t[1], t[2]} = {a, b}

\* C1: Re-parenting is rejected. A call add_child(parent2, child) on a child that
\* already has another parent creates no edge, adds nothing to the scene and leaves
\* the child's parent as it was; every vertex is the child of at most one parent.
C1_ReparentIsNoOp ==
    [][/\ \A v \in VertexIds : Cardinality(ParentsOf(scene', v)) <= 1
       /\ (/\ IsAddChildStep
           /\ lastOp'.a # lastOp'.b
           /\ ParentsOf(scene, lastOp'.b) # {}
           /\ lastOp'.a \notin ParentsOf(scene, lastOp'.b))
          => /\ scene'.edges = scene.edges
             /\ scene'.items = scene.items
             /\ ParentsOf(scene', lastOp'.b) = ParentsOf(scene, lastOp'.b)]_vars

\* C2: Self-loop creation is rejected with no mutation. A call add_child(v, v)
\* leaves the items of the scene, the child adjacency of v and the bindings of the
\* scene's binder as they were.
C2_SelfLoopNoMutation ==
    [][(IsAddChildStep /\ lastOp'.a = lastOp'.b)
          => /\ scene'.items = scene.items
             /\ scene'.children = scene.children
             /\ scene'.binder = scene.binder]_vars

\* C3: No unordered pair of vertices is linked both by a tree edge and by a
\* sibling edge at the same time.
C3_TreeXorSibling ==
    \A a \in VertexIds, b \in VertexIds :
        ~(TreeLinked(scene, a, b) /\ SiblingLinked(scene, a, b))

-----------------------------------------------------------------------------
(* Claims about getItemAtPos, under SpecHit *)

\* the call of getItemAtPos has returned
HitDone == scene.hit.pc = "done"
\* the value of ignore_labels the call used
HitIgnoresLabels == IgnoreLabels(scene.hit.ignore_labels, settings.label_movement)

\* the positions of the stack under the point that hold a Vertex, a Label, an Edge
VertexAt(under) == {i \in 1..Len(under) : IsVertex(under[i])}
LabelAt(under) == {i \in 1..Len(under) : IsLabel(under[i])}
EdgeAt(under) == {i \in 1..Len(under) : IsEdge(under[i])}
\* the least element of a non-empty set of positions: the top-most of them
Top(S) == CHOOSE i \in S : \A j \in S : i <= j

\* C4: getItemAtPos never returns an Edge when a Vertex is under the point,
\* whatever the stacking order and whatever ignore_edges is.
C4_NoEdgeOverVertex ==
    (HitDone /\ VertexAt(scene.hit.under) # {}) => ~IsEdge(scene.hit.result)

\* C4 witness: an Edge that is not ignored lies above a Vertex, and the call
\* returned the Vertex.
C4_Witness ==
    /\ HitDone
    /\ ~scene.hit.ignore_edges
    /\ \E i \in EdgeAt(scene.hit.under), j \in VertexAt(scene.hit.under) : i < j
    /\ IsVertex(scene.hit.result)

\* C5 as stated: with a Vertex and a Label under the point and labels not ignored,
\* getItemAtPos returns the Vertex, in every stacking order of the two.
C5_VertexBeatsLabel ==
    (/\ HitDone
     /\ ~HitIgnoresLabels
     /\ VertexAt(scene.hit.under) # {}
     /\ LabelAt(scene.hit.under) # {})
    => IsVertex(scene.hit.result)

\* C5 as amended: with a Vertex or a Label that is not ignored under the point,
\* getItemAtPos returns the top-most item among the vertices and the labels that
\* are not ignored (a Label stacked above a Vertex wins over it), and never an Edge.
C5_TopMostVertexOrLabel ==
    LET under == scene.hit.under
        solid == VertexAt(under) \cup (IF HitIgnoresLabels THEN {} ELSE LabelAt(under))
    IN  (HitDone /\ solid # {}) => scene.hit.result = under[Top(solid)]

\* C5 witness: a Label that is not ignored lies above a Vertex and is returned.
C5_Witness ==
    /\ HitDone
    /\ ~HitIgnoresLabels
    /\ \E i \in LabelAt(scene.hit.under), j \in VertexAt(scene.hit.under) : i < j
    /\ IsLabel(scene.hit.result)

\* C6: with no Vertex and no Label that is not ignored under the point and edges
\* not ignored, getItemAtPos returns the Edge at the least distance, the top-most
\* of them on a tie, and None when no Edge is a candidate (the candidates are the
\* edges near the point: those items(pos) returns); with edges ignored it never
\* returns an Edge.
C6_NearestEdge ==
    LET under == scene.hit.under
        dist == scene.hit.dist
        edges == EdgeAt(under)
        nearest == {i \in edges : \A j \in edges : dist[i] <= dist[j]}
    IN  HitDone =>
        /\ (scene.hit.ignore_edges => ~IsEdge(scene.hit.result))
        /\ (/\ ~scene.hit.ignore_edges
            /\ VertexAt(under) = {}
            /\ (HitIgnoresLabels \/ LabelAt(under) = {}))
           => scene.hit.result = IF edges = {} THEN None ELSE under[Top(nearest)]

\* C6 witness: two edges at the same distance under the point, no Vertex, labels
\* ignored; the call returned the top-most of the two edges.
C6_Witness ==
    LET under == scene.hit.under
        dist == scene.hit.dist
    IN  /\ HitDone
        /\ ~scene.hit.ignore_edges
        /\ HitIgnoresLabels
        /\ VertexAt(under) = {}
        /\ \E i \in EdgeAt(under), j \in EdgeAt(under) :
              i < j /\ dist[i] = dist[j] /\ scene.hit.result = under[i]

\* C7: getItemAtPos returns a Label only if ignore_labels is false, and an
\* ignore_labels that is not given is (not settings.label_movement): with labels
\* locked the call of mousePressEvent and of mouseMoveEvent (no ignore_labels)
\* never yields a Label; an ignored Label is skipped and the search goes on to
\* the items below it.
C7_LabelOnlyIfNotIgnored ==
    LET under == scene.hit.under IN
    HitDone =>
        /\ IsLabel(scene.hit.result) => scene.hit.ignore_labels # "True"
        /\ (scene.hit.ignore_labels = "None" /\ ~settings.label_movement)
               => ~IsLabel(scene.hit.result)
        /\ (scene.hit.ignore_labels = "None" /\ settings.label_movement /\ LabelAt(under) # {}
               /\ (VertexAt(under) = {} \/ Top(LabelAt(under)) < Top(VertexAt(under))))
               => scene.hit.result = under[Top(LabelAt(under))]
        /\ HitIgnoresLabels =>
               /\ VertexAt(under) # {} => scene.hit.result = under[Top(VertexAt(under))]
               /\ (VertexAt(under) = {} /\ EdgeAt(under) # {} /\ ~scene.hit.ignore_edges)
                      => IsEdge(scene.hit.result)

\* C7 witness: labels are locked, ignore_labels is not given, a Label is the
\* top-most item under the point and the call returned the Vertex below it.
C7_Witness ==
    /\ HitDone
    /\ scene.hit.ignore_labels = "None"
    /\ ~settings.label_movement
    /\ Len(scene.hit.under) >= 2
    /\ IsLabel(scene.hit.under[1])
    /\ IsVertex(scene.hit.result)

-----------------------------------------------------------------------------
(* The hover state machine, under Spec *)

\* the last step was a pointer motion with nothing grabbed and no button held;
\* lastOp.a is the item hovered before it, scene.hit.result the item under the pointer
HoverStep == lastOp.op = "mouseMoveEvent" /\ lastOp.b = None /\ buttons = {}

\* the handlers a hover transition from old to new calls, in order
HoverEvents(old, new) ==
    IF old = new
    THEN IF new # None THEN << <<"hoverMoveEvent", new>> >> ELSE << >>
    ELSE (IF old # None THEN << <<"hoverLeaveEvent", old>> >> ELSE << >>)
         \o (IF new # None THEN << <<"hoverEnterEvent", new>> >> ELSE << >>)

\* C8: on a pointer motion with nothing grabbed and no button held, hovered_item
\* becomes the item under the pointer and the handlers called are exactly: hoverLeave
\* of the old item (if any) then hoverEnter of the new one (if any) when the two
\* differ, hoverMove alone when they are the same item. After every event each item
\* has had as many hoverEnter as hoverLeave, or one more (they alternate), and the
\* only item with one more is hovered_item (at most one item is inside).
C8_HoverTransitions ==
    /\ HoverStep =>
          /\ scene.hovered_item = scene.hit.result
          /\ scene.delivered = HoverEvents(lastOp.a, scene.hit.result)
    /\ \A item \in Universe :
          /\ scene.hover_count[item] \in {0, 1}
          /\ scene.hover_count[item] = 1 <=> item = scene.hovered_item

\* a pointer motion from one hovered item to another: leave, then enter
C8_Witness ==
    /\ HoverStep
    /\ lastOp.a # None
    /\ scene.hit.result # None
    /\ lastOp.a # scene.hit.result
    /\ scene.delivered = << <<"hoverLeaveEvent", lastOp.a>>,
                           <<"hoverEnterEvent", scene.hit.result>> >>
    /\ scene.hover_count[lastOp.a] = 0

C10_SceneLeaveClearsHover ==
    lastOp.op = "GraphicsSceneLeave" =>
        /\ scene.hovered_item = None
        /\ scene.delivered = IF lastOp.a # None
                              THEN << <<"hoverLeaveEvent", lastOp.a>> >>
                              ELSE << >>
        /\ \A item \in Universe : scene.hover_count[item] = 0

\* the pointer leaves the scene while an item is hovered
C10_Witness ==
    /\ lastOp.op = "GraphicsSceneLeave"
    /\ lastOp.a # None
    /\ scene.hovered_item = None
    /\ scene.delivered = << <<"hoverLeaveEvent", lastOp.a>> >>

-----------------------------------------------------------------------------
(* The press/grab state machine, under Spec *)

\* C11: the grabbed item changes only in two ways: a press of the left button over
\* an item (found by the hit test that ignores edges) makes that item the grabbed
\* item, and a release of the left button makes the grabbed item None, which it does
\* whenever an item is grabbed. A pointer motion while an item is grabbed calls
\* mouseMoveEvent of the grabbed item and nothing else: no hit test is run, and
\* hovered_item and the grabbed item stay as they were.
C11_GrabStateMachine ==
    [][/\ scene'.mouseGrabberItem # scene.mouseGrabberItem =>
            \/ /\ lastOp'.op = "mousePressEvent"
               /\ buttons' \ buttons = {"LeftButton"}
               /\ scene'.mouseGrabberItem = scene'.hit.result
               /\ scene'.hit.ignore_edges
               /\ scene'.delivered[1] = <<"mousePressEvent", scene'.mouseGrabberItem>>
            \/ /\ lastOp'.op = "mouseReleaseEvent"
               /\ buttons \ buttons' = {"LeftButton"}
               /\ scene'.mouseGrabberItem = None
               /\ scene'.delivered[1] = <<"mouseReleaseEvent", scene.mouseGrabberItem>>
       /\ (lastOp'.op = "mouseReleaseEvent" /\ buttons \ buttons' = {"LeftButton"}) =>
            scene'.mouseGrabberItem = None
       /\ (lastOp'.op = "mouseMoveEvent" /\ scene.mouseGrabberItem # None) =>
            /\ scene'.delivered = << <<"mouseMoveEvent", scene.mouseGrabberItem>> >>
            /\ scene'.hit = scene.hit
            /\ scene'.hovered_item = scene.hovered_item
            /\ scene'.mouseGrabberItem = scene.mouseGrabberItem
            /\ scene'.hover_count = scene.hover_count
      ]_vars

\* a pointer motion while an item is grabbed and another item is hovered: the motion
\* went to the grabbed item
C11_Witness ==
    /\ lastOp.op = "mouseMoveEvent"
    /\ lastOp.b # None
    /\ scene.mouseGrabberItem = lastOp.b
    /\ scene.hovered_item # None
    /\ scene.hovered_item # scene.mouseGrabberItem
    /\ scene.delivered = << <<"mouseMoveEvent", scene.mouseGrabberItem>> >>

-----------------------------------------------------------------------------
(* The Scene of demo.py: hovered item, pressed item and highlighted edge *)

\* Scene.__init__; children holds parent.edges[child] as (parent, child, edge),
\* state_hovered, state_pressed and state_highlighted the items whose flag is set,
\* highlight_trace the edges with state_highlighted set after each write of the
\* flag by the event being handled
DemoEmptyScene ==
    [items |-> {}, children |-> {}, binder |-> {},
     hovered_item |-> None, pressed_item |-> None, lighlighted_edge |-> None,
     state_hovered |-> {}, state_pressed |-> {}, state_highlighted |-> {},
     highlight_trace |-> << >>]

Scene_create_node(s, item) ==
    [s EXCEPT !.binder = @ \cup {<<"colorMapChanged", item, "update_colors">>,
                                 <<"rotational_movement", item, "set_rotational_setting">>,
                                 <<"label_movement", LabelOf(item), "set_locked">>,
                                 <<"highlight_color", LabelOf(item), "set_highlight_color">>,
                                 <<"highlight_color", item, "set_highlight_color">>}]

Scene_create_vertex(s, item) ==
    [s EXCEPT !.binder = @ \cup {<<"rotational_movement", item, "set_rotational_setting">>,
                                 <<"highlight_color", item, "set_highlight_color">>}]

\* Vertex.addChild(child, segments) of demo.py's items: the parent makes the edge,
\* keeps it as parent.edges[child] and becomes the parent item of the child, which
\* is in the scene when the parent is
Vertex_addChild(s, parent, child, segments) ==
    LET edge == <<"Edge", Cardinality(s.children) + 1>> IN
    [s EXCEPT !.children = @ \cup {<<parent, child, edge>>},
              !.items = IF parent \in @ THEN @ \cup {child, edge} \cup ChildItems(child) ELSE @]

add_node_child(s, parent, child, segments) ==
    LET s1 == Vertex_addChild(s, parent, child, segments)
        edge == (CHOOSE t \in s1.children : t[1] = parent /\ t[2] = child)[3]
    IN  [s1 EXCEPT !.binder = @ \cup {<<"highlight_color", edge, "set_highlight_color">>}]

\* item.parentItem(): the owner of a label, the parent of a child, else None
parentItem(s, item) ==
    IF IsLabel(item)
    THEN <<"Node", item[2]>>
    ELSE IF \E t \in s.children : t[2] = item
         THEN (CHOOSE t \in s.children : t[2] = item)[1]
         ELSE None

get_item_edge(s, item) ==
    IF item = None
    THEN None
    ELSE LET it == IF IsLabel(item) THEN parentItem(s, item) ELSE item IN
         IF IsVertex(parentItem(s, it))
         THEN (CHOOSE t \in s.children : t[1] = parentItem(s, it) /\ t[2] = it)[3]
         ELSE None

\* Scene._set_highlighted_edge_state
set_highlighted_edge_state(s, state) ==
    LET edge == s.lighlighted_edge
        flags == IF state THEN s.state_highlighted \cup {edge}
                          ELSE s.state_highlighted \ {edge}
    IN  [s EXCEPT !.state_highlighted = flags,
                  !.highlight_trace = Append(@, flags)]

\* set_highlighted_edge without lines 370-371: the flag of the old edge is kept
set_highlighted_edge_no_clear(s, edge) ==
    LET s2 == [s EXCEPT !.lighlighted_edge = edge]
    IN  IF edge # None THEN set_highlighted_edge_state(s2, TRUE) ELSE s2

set_highlighted_edge(s, edge) ==
    LET s1 == IF s.lighlighted_edge # None
              THEN set_highlighted_edge_state(s, FALSE)
              ELSE s
        s2 == [s1 EXCEPT !.lighlighted_edge = edge]
    IN  IF edge # None THEN set_highlighted_edge_state(s2, TRUE) ELSE s2

\* the items whose flag _set_hovered_item_state and _set_pressed_item_state write
StateItems(s, item) ==
    {item} \cup (IF IsLabel(item) THEN {parentItem(s, item)} ELSE {})
           \cup (IF IsNode(item) THEN {LabelOf(item)} ELSE {})

\* Scene._set_hovered_item_state
set_hovered_item_state(s, state) ==
    [s EXCEPT !.state_hovered = IF state THEN @ \cup StateItems(s, s.hovered_item)
                                         ELSE @ \ StateItems(s, s.hovered_item)]

set_hovered_item(s, item) ==
    LET s1 == IF s.hovered_item # None THEN set_hovered_item_state(s, FALSE) ELSE s
        s2 == [s1 EXCEPT !.hovered_item = item]
        s3 == IF item # None THEN set_hovered_item_state(s2, TRUE) ELSE s2
    IN  IF s3.pressed_item = None
        THEN set_highlighted_edge(s3, get_item_edge(s3, item))
        ELSE s3

\* Scene._set_pressed_item_state
set_pressed_item_state(s, state) ==
    [s EXCEPT !.state_pressed = IF state THEN @ \cup StateItems(s, s.pressed_item)
                                         ELSE @ \ StateItems(s, s.pressed_item)]

set_pressed_item(s, item) ==
    LET s1 == IF s.pressed_item # None THEN set_pressed_item_state(s, FALSE) ELSE s
        s2 == [s1 EXCEPT !.pressed_item = item]
        s3 == IF item # None THEN set_pressed_item_state(s2, TRUE) ELSE s2
    IN  set_highlighted_edge(s3, get_item_edge(s3, item))

\* the loop of customHoverEvent from the i-th item under the pointer
RECURSIVE customHoverEvent_loop(_, _, _)
customHoverEvent_loop(s, under, i) ==
    IF i > Len(under)
    THEN set_hovered_item(s, None)
    ELSE IF under[i] = s.hovered_item
         THEN s
         ELSE IF IsVertex(under[i]) \/ IsLabel(under[i])
              THEN set_hovered_item(s, under[i])
              ELSE customHoverEvent_loop(s, under, i + 1)

customHoverEvent(s, event) == customHoverEvent_loop(s, event.under, 1)

\* the loop of Scene.mousePressEvent from the i-th item under the pointer
RECURSIVE Scene_mousePressEvent_loop(_, _, _)
Scene_mousePressEvent_loop(s, under, i) ==
    IF i > Len(under)
    THEN s
    ELSE IF IsVertex(under[i]) \/ IsLabel(under[i])
         THEN set_pressed_item(s, under[i])
         ELSE Scene_mousePressEvent_loop(s, under, i + 1)

\* Scene.mousePressEvent; super().mousePressEvent writes no field of the Scene
Scene_mousePressEvent(s, event) ==
    IF event.button # "LeftButton"
    THEN s
    ELSE Scene_mousePressEvent_loop(s, event.under, 1)

\* Scene.mouseReleaseEvent
Scene_mouseReleaseEvent(s, event) ==
    IF event.button = "LeftButton" THEN set_pressed_item(s, None) ELSE s

\* Scene.mouseLeaveEvent
Scene_mouseLeaveEvent(s) == set_hovered_item(s, None)

\* a new event is handled: no flag has been written by it yet
BeginScene(s) == [s EXCEPT !.highlight_trace = << >>]

\* the handler, the hovered item and the pressed item it found
SceneOp(op) == Op(op, scene.hovered_item, scene.pressed_item)

\* Scene.event with a GraphicsSceneMouseMove event
SceneMouseMove ==
    \E under \in ItemsAt(scene, MaxPointer) : \E dist \in PointerDists(under) :
        /\ scene' = customHoverEvent(BeginScene(scene),
                                     Event("NoButton", buttons, under, dist))
        /\ lastOp' = SceneOp("customHoverEvent")
        /\ UNCHANGED <<settings, buttons>>

SceneMousePress ==
    \E button \in Buttons \ buttons :
    \E under \in ItemsAt(scene, MaxPointer) : \E dist \in PointerDists(under) :
        /\ buttons' = buttons \cup {button}
        /\ scene' = Scene_mousePressEvent(BeginScene(scene),
                                          Event(button, buttons', under, dist))
        /\ lastOp' = SceneOp("mousePressEvent")
        /\ UNCHANGED settings

SceneMouseRelease ==
    \E button \in buttons :
    \E under \in ItemsAt(scene, MaxPointer) : \E dist \in PointerDists(under) :
        /\ buttons' = buttons \ {button}
        /\ scene' = Scene_mouseReleaseEvent(BeginScene(scene),
                                            Event(button, buttons', under, dist))
        /\ lastOp' = SceneOp("mouseReleaseEvent")
        /\ UNCHANGED settings

\* Scene.event with a GraphicsSceneLeave event
SceneMouseLeave ==
    /\ scene' = Scene_mouseLeaveEvent(BeginScene(scene))
    /\ lastOp' = SceneOp("mouseLeaveEvent")
    /\ UNCHANGED <<settings, buttons>>

\* a scene built the way Scene.addNodes builds one: a node, a node as its child and
\* a vertex as the child of the child
DemoScene ==
    LET node1 == <<"Node", 1>>
        node2 == <<"Node", 2>>
        vertex1 == <<"Vertex", 1>>
        s1 == addItem(Scene_create_node(DemoEmptyScene, node1), node1)
        s2 == add_node_child(Scene_create_node(s1, node2), node1, node2, 2)
    IN  add_node_child(Scene_create_vertex(s2, vertex1), node2, vertex1, 2)

InitDemo ==
    /\ scene = DemoScene
    /\ settings = InitSettings
    /\ buttons = {}
    /\ lastOp = Op("init", None, None)

NextDemo ==
    \/ SceneMouseMove
    \/ SceneMousePress
    \/ SceneMouseRelease
    \/ SceneMouseLeave

SpecDemo == InitDemo /\ [][NextDemo]_vars

\* the item the highlighted edge is derived from: the pressed item, else the hovered
HighlightSource == IF scene.pressed_item # None THEN scene.pressed_item ELSE scene.hovered_item

\* C12: the highlighted edge is the tree edge of the pressed item if an item is
\* pressed, otherwise the tree edge of the hovered item, and None when that item is
\* None or is not a child under a vertex; so after a release with a child still
\* hovered the edge of that child is highlighted.
C12_HighlightDerived == scene.lighlighted_edge = get_item_edge(scene, HighlightSource)

\* C13: the edges whose state_highlighted flag is set are none, or the one edge
\* recorded as the highlighted edge, and at no moment of an event two edges have
\* the flag set: the flag of the old edge is cleared before that of the new is set.
C13_OneHighlightedEdge ==
    /\ scene.state_highlighted =
          IF scene.lighlighted_edge = None THEN {} ELSE {scene.lighlighted_edge}
    /\ \A i \in 1..Len(scene.highlight_trace) :
          Cardinality(scene.highlight_trace[i]) <= 1

\* the highlight moved from one edge to another in one event: cleared, then set
C13_Witness ==
    /\ Len(scene.highlight_trace) = 2
    /\ scene.highlight_trace[1] = {}
    /\ scene.highlight_trace[2] = {scene.lighlighted_edge}
    /\ scene.lighlighted_edge # None

-----------------------------------------------------------------------------
(* The exports of GraphicsView: SpecExport *)

\* GraphicsView.clear_mouse
clear_mouse(s) == mouseLeaveEvent(s)

\* GraphicsView.render on a painter of the given device: the items are painted with
\* the interaction state the scene has at that moment
render(s, device) ==
    [s EXCEPT !.delivered = Append(@, <<"render", device, s.hovered_item, s.mouseGrabberItem>>)]

export_svg(s) == render(clear_mouse(s), "QSvgGenerator")

export_pdf(s) == render(clear_mouse(s), "QPdfWriter")

export_png(s) == render(clear_mouse(s), "QPixmap")

ExportSvg ==
    /\ scene' = export_svg(Begin(scene))
    /\ lastOp' = MouseOp("export_svg")
    /\ UNCHANGED <<settings, buttons>>

ExportPdf ==
    /\ scene' = export_pdf(Begin(scene))
    /\ lastOp' = MouseOp("export_pdf")
    /\ UNCHANGED <<settings, buttons>>

ExportPng ==
    /\ scene' = export_png(Begin(scene))
    /\ lastOp' = MouseOp("export_png")
    /\ UNCHANGED <<settings, buttons>>

NextExport ==
    \/ MouseMove
    \/ MousePress
    \/ MouseRelease
    \/ MouseDoubleClick
    \/ SceneLeave
    \/ SetLabelMovement
    \/ ExportSvg
    \/ ExportPdf
    \/ ExportPng

SpecExport == Init /\ [][NextExport]_vars

\* C14: after export_svg, export_pdf or export_png, and at the moment it rendered,
\* the hovered item and the grabbed item of the scene are None, whatever they were
\* before the call.
C14_ExportClearsInteraction ==
    lastOp.op \in {"export_svg", "export_pdf", "export_png"} =>
        /\ scene.hovered_item = None
        /\ scene.mouseGrabberItem = None
        /\ \A i \in 1..Len(scene.delivered) :
              scene.delivered[i][1] = "render" =>
                  scene.delivered[i][3] = None /\ scene.delivered[i][4] = None

-----------------------------------------------------------------------------
(* DivisionListModel *)

\* a color string is a sequence of characters
Chars == {" ", "#", "f", "g"}
HexDigits == {"0", "1", "2", "3", "4", "5", "6", "7", "8", "9",
              "a", "b", "c", "d", "e", "f"}

\* the strings of at most n characters
Strings(n) == UNION {[1..k -> Chars] : k \in 0..n}

\* the digit that tells the colors of a palette apart
Digit(i) == IF i < 10 THEN SubSeq(<<"0", "1", "2", "3", "4", "5", "6", "7", "8", "9">>,
                                  i + 1, i + 1)
            ELSE <<"f">>

\* a Palette: palette[index], palette.default, palette.highlight
Palette(type, hue) ==
    [type |-> type, hue |-> hue,
     default |-> <<"#", hue, "d", "d">>, highlight |-> <<"#", hue, "e", "e">>]

\* palette[index]
PaletteColor(palette, index) == <<"#", palette.hue, "c">> \o Digit(index)

Palettes == {Palette("Spring", "a"), Palette("Grayscale", "b")}

Keys == {"X", "Y", "Z"}

\* the lists of at most n keys
KeyLists(n) == UNION {[1..k -> Keys] : k \in 0..n}

\* get_color_map: a dict of the divisions (the last division of a key wins) with
\* _default_color for every other key
get_color_map(m) ==
    [key \in Keys |->
        IF \E i \in 1..Len(m.divisions) : m.divisions[i].key = key
        THEN LET last == CHOOSE i \in 1..Len(m.divisions) :
                             /\ m.divisions[i].key = key
                             /\ \A j \in (i + 1)..Len(m.divisions) : m.divisions[j].key # key
             IN  m.divisions[last].color
        ELSE m.default_color]

handle_data_changed(m) == [m EXCEPT !.emitted = Append(@, get_color_map(m))]

\* endResetModel() and dataChanged.emit: the signal calls handle_data_changed once
\* the model is connected, which it is after __init__
\* endResetModel with modelReset connected to nothing: no colorMapChanged
endResetModel_silent(m) == m

endResetModel(m) == IF m.connected THEN handle_data_changed(m) ELSE m

set_divisions_from_keys(m, keys) ==
    endResetModel([m EXCEPT !.divisions =
        [i \in 1..Len(keys) |-> [key |-> keys[i], color |-> PaletteColor(m.palette, i - 1)]]])

\* set_palette with the palette of __init__ instead of its argument
set_palette_stale(m, palette) ==
    endResetModel([m EXCEPT !.default_color = m.palette.default,
                            !.divisions = [i \in 1..Len(@) |->
                                [@[i] EXCEPT !.color = PaletteColor(m.palette, i - 1)]]])

set_palette(m, palette) ==
    endResetModel([m EXCEPT !.default_color = palette.default,
                            !.divisions = [i \in 1..Len(@) |->
                                [@[i] EXCEPT !.color = PaletteColor(palette, i - 1)]]])

\* DivisionListModel.__init__
DivisionListModel(names, palette) ==
    LET m0 == [palette |-> palette, default_color |-> palette.default,
               divisions |-> << >>, emitted |-> << >>, connected |-> FALSE]
        m1 == set_palette(set_divisions_from_keys(m0, names), palette)
    IN  [m1 EXCEPT !.connected = TRUE]

\* str.strip()
RECURSIVE strip(_)
strip(value) ==
    IF value = << >>
    THEN value
    ELSE IF Head(value) = " "
         THEN strip(Tail(value))
         ELSE IF value[Len(value)] = " "
              THEN strip(SubSeq(value, 1, Len(value) - 1))
              ELSE value

\* QColor.isValidColor of a name: "#" and 3, 6, 8, 9 or 12 hexadecimal digits; no
\* string over Chars without "#" is the name of a color
isValidColor(color) ==
    /\ color # << >>
    /\ color[1] = "#"
    /\ Len(color) - 1 \in {3, 6, 8, 9, 12}
    /\ \A i \in 2..Len(color) : color[i] \in HexDigits

Roles == {"EditRole", "DisplayRole"}

\* setData without the test of the role: every role is an edit
setData_any_role(m, row, value, role) ==
    IF ~(0 <= row /\ row < Len(m.divisions))
    THEN [model |-> m, result |-> FALSE]
    ELSE LET stripped == strip(value)
             color == IF stripped # << >> /\ stripped[1] = "#"
                      THEN stripped ELSE <<"#">> \o stripped
         IN  IF ~isValidColor(color)
             THEN [model |-> m, result |-> FALSE]
             ELSE [model |-> handle_data_changed(
                                [m EXCEPT !.divisions[row + 1].color = color]),
                   result |-> TRUE]

\* setData without lines 102-103: the color is not validated
setData_unchecked(m, row, value, role) ==
    IF ~(0 <= row /\ row < Len(m.divisions))
    THEN [model |-> m, result |-> FALSE]
    ELSE IF role = "EditRole"
         THEN LET stripped == strip(value)
                  color == IF stripped # << >> /\ stripped[1] = "#"
                           THEN stripped ELSE <<"#">> \o stripped
              IN  [model |-> handle_data_changed(
                                 [m EXCEPT !.divisions[row + 1].color = color]),
                   result |-> TRUE]
         ELSE [model |-> m, result |-> FALSE]

\* setData(index, value, role) with index.row() = row; the model after the call and
\* the value returned
setData(m, row, value, role) ==
    IF ~(0 <= row /\ row < Len(m.divisions))
    THEN [model |-> m, result |-> FALSE]
    ELSE IF role = "EditRole"
         THEN LET stripped == strip(value)
                  color == IF stripped # << >> /\ stripped[1] = "#"
                           THEN stripped ELSE <<"#">> \o stripped
              IN  IF ~isValidColor(color)
                  THEN [model |-> m, result |-> FALSE]
                  ELSE [model |-> handle_data_changed(
                                     [m EXCEPT !.divisions[row + 1].color = color]),
                        result |-> TRUE]
         ELSE [model |-> m, result |-> FALSE]

-----------------------------------------------------------------------------
(* The calls of a DivisionListModel: SpecDivisions *)

\* Settings.__init__: the defaults of the properties, the DivisionListModel instance
\* and highlight_color bound to palette.highlight
NewSettings ==
    LET palette == Palette("Spring", "a") IN
    [palette |-> palette,
     divisions |-> DivisionListModel(<< >>, palette),
     highlight_color |-> palette.highlight,
     rotational_movement |-> TRUE,
     recursive_movement |-> TRUE,
     label_movement |-> FALSE]

\* a new call starts: colorMapChanged has carried nothing in it yet
BeginModel(m) == [m EXCEPT !.emitted = << >>]

\* the same for the model of a Settings
BeginSettings(st) == [st EXCEPT !.divisions = BeginModel(@)]

SetDivisionsFromKeys ==
    \E keys \in KeyLists(MaxKeys) :
        /\ settings' = [settings EXCEPT !.divisions =
                            set_divisions_from_keys(BeginModel(@), keys)]
        /\ lastOp' = Op("set_divisions_from_keys", keys, None)
        /\ UNCHANGED <<scene, buttons>>

SetPalette ==
    \E palette \in Palettes :
        /\ settings' = [settings EXCEPT !.divisions = set_palette(BeginModel(@), palette)]
        /\ lastOp' = Op("set_palette", palette, lastOp.op)
        /\ UNCHANGED <<scene, buttons>>

\* a DivisionListModel made with either palette and no names
InitDivisions ==
    /\ scene = EmptyScene
    /\ \E palette \in Palettes :
           settings = [NewSettings EXCEPT !.divisions = DivisionListModel(<< >>, palette)]
    /\ buttons = {}
    /\ lastOp = Op("init", None, None)

NextDivisions ==
    \/ SetDivisionsFromKeys
    \/ SetPalette

SpecDivisions == InitDivisions /\ [][NextDivisions]_vars

\* One call of setData on every bounded input: SpecSetData
InitSetData ==
    /\ scene = EmptyScene
    /\ \E names \in KeyLists(MaxKeys) :
           settings = [NewSettings EXCEPT !.divisions =
                           DivisionListModel(names, NewSettings.palette)]
    /\ buttons = {}
    /\ \E row \in -1..MaxKeys, value \in Strings(MaxChars), role \in Roles :
           lastOp = Op("call", [row |-> row, value |-> value, role |-> role], None)

SetData ==
    /\ lastOp.op = "call"
    /\ LET call == setData(BeginModel(settings.divisions),
                           lastOp.a.row, lastOp.a.value, lastOp.a.role)
       IN  /\ settings' = [settings EXCEPT !.divisions = call.model]
           /\ lastOp' = Op("setData", lastOp.a, call.result)
    /\ UNCHANGED <<scene, buttons>>

NextSetData == SetData

SpecSetData == InitSetData /\ [][NextSetData]_vars

\* the keys of the divisions, in order
DivisionKeys == [i \in 1..Len(settings.divisions.divisions) |->
                    settings.divisions.divisions[i].key]

UniqueKeys(keys) == \A i \in 1..Len(keys), j \in 1..Len(keys) : i # j => keys[i] # keys[j]

\* C19: after set_palette(P) on divisions made from a list K of unique keys,
\* get_color_map() maps K[i] to P[i] (indices from 0) and every key not in K to
\* P.default, and that map is the one colorMapChanged carried.
C19_ColorMapOfPalette ==
    (lastOp.op = "set_palette" /\ UniqueKeys(DivisionKeys)) =>
        /\ \A key \in Keys :
              get_color_map(settings.divisions)[key] =
                  IF \E i \in 1..Len(DivisionKeys) : DivisionKeys[i] = key
                  THEN PaletteColor(lastOp.a, (CHOOSE i \in 1..Len(DivisionKeys) :
                                                  DivisionKeys[i] = key) - 1)
                  ELSE lastOp.a.default
        /\ settings.divisions.emitted = << get_color_map(settings.divisions) >>

\* set_divisions_from_keys of two unique keys, then set_palette of another palette
\* than the one the model was made with
C19_Witness ==
    /\ lastOp.op = "set_palette"
    /\ lastOp.b = "set_divisions_from_keys"
    /\ lastOp.a # settings.divisions.palette
    /\ Len(DivisionKeys) = 2
    /\ UniqueKeys(DivisionKeys)
    /\ get_color_map(settings.divisions)[DivisionKeys[2]] = PaletteColor(lastOp.a, 1)
    /\ \E key \in Keys : get_color_map(settings.divisions)[key] = lastOp.a.default

\* the color setData stores for a value: stripped, with "#" in front if it has none
NormalizedColor(value) ==
    IF strip(value) # << >> /\ strip(value)[1] = "#" THEN strip(value) ELSE <<"#">> \o strip(value)

\* C20: setData of a division with a string that is not a valid color once
\* normalized returns False, changes no division (so not get_color_map() either)
\* and emits no colorMapChanged.
C20_InvalidColorRejected ==
    [][(/\ lastOp'.op = "setData"
        /\ lastOp'.a.role = "EditRole"
        /\ lastOp'.a.row \in 0..(Len(settings.divisions.divisions) - 1)
        /\ ~isValidColor(NormalizedColor(lastOp'.a.value))) =>
           /\ lastOp'.b = FALSE
           /\ settings'.divisions.divisions = settings.divisions.divisions
           /\ get_color_map(settings'.divisions) = get_color_map(settings.divisions)
           /\ settings'.divisions.emitted = << >>
      ]_vars

\* setData of an existing division with a string that has a non-hexadecimal digit
C20_Witness ==
    /\ lastOp.op = "setData"
    /\ lastOp.a.role = "EditRole"
    /\ lastOp.a.row \in 0..(Len(settings.divisions.divisions) - 1)
    /\ \E i \in 1..Len(lastOp.a.value) : lastOp.a.value[i] = "g"
    /\ lastOp.b = FALSE
    /\ settings.divisions.emitted = << >>

-----------------------------------------------------------------------------
(* The bindings of the objects to the Settings: SpecSettings *)

\* the objects of a scene with their state: slots holds, for each slot of each
\* object, the value it was last called with, calls the slot calls made by the
\* operation under way, cleared the objects made before the last clear()
BoundScene == EmptyScene @@ [slots |-> {}, calls |-> {}, cleared |-> {}]

\* the proxy of a binding: lambda x: not x for set_locked, none for the others
Proxy(slot, value) == IF slot = "set_locked" THEN ~value ELSE value

\* the slots of the bindings bs are called with value
CallSlots(s, bs, value) ==
    LET new == {<<b[2], b[3], Proxy(b[3], value)>> : b \in bs} IN
    [s EXCEPT !.slots = {t \in @ : ~\E n \in new : n[1] = t[1] /\ n[2] = t[2]} \cup new,
              !.calls = @ \cup new]

\* a property or a signal of the Settings notifies the slots bound to it
Notify(s, property, value) == CallSlots(s, {b \in s.binder : b[1] = property}, value)

\* Binder.bind calls the slot with the value the property has; a signal has none.
\* s1 is the scene after a create_* call on s0
bind_update(s0, s1, st) ==
    LET new == {b \in s1.binder \ s0.binder : b[1] # "colorMapChanged"}
        called == {<<b[2], b[3], Proxy(b[3], st[b[1]])>> : b \in new}
    IN  [s1 EXCEPT !.slots = @ \cup called, !.calls = @ \cup called]

\* a new operation starts: no slot has been called by it yet
BeginBound(s) == [s EXCEPT !.calls = {}]

HighlightColors == {p.highlight : p \in Palettes} \cup {<<"#", "f", "f", "f">>}

\* the objects are numbered in the order of their creation
BoundCreateVertex ==
    \E item \in PlainVertices \ scene.vertices :
        /\ item[2] = Cardinality(scene.vertices \cap PlainVertices) + 1
        /\ scene' = bind_update(scene, create_vertex(BeginBound(scene), item), settings)
        /\ settings' = BeginSettings(settings)
        /\ lastOp' = Op("create_vertex", item, None)
        /\ UNCHANGED buttons

BoundCreateNode ==
    \E item \in Nodes \ scene.vertices :
        /\ item[2] = Cardinality(scene.vertices \cap Nodes) + 1
        /\ scene' = bind_update(scene, create_node(BeginBound(scene), item), settings)
        /\ settings' = BeginSettings(settings)
        /\ lastOp' = Op("create_node", item, None)
        /\ UNCHANGED buttons

\* the bindings of an edge do not depend on its end points: the edges of
\* SpecSettings join the first node to one other object
BoundCreateEdge ==
    \E node1 \in scene.vertices \cap {<<"Node", 1>>} :
    \E node2 \in {CHOOSE v \in scene.vertices \cup {None} :
                      (scene.vertices \ {node1} # {}) => v \in scene.vertices \ {node1}} :
        /\ node2 # None
        /\ Len(scene.edges) < MaxEdges
        /\ scene' = bind_update(scene, create_edge(BeginBound(scene), node1, node2, 1),
                                settings)
        /\ settings' = BeginSettings(settings)
        /\ lastOp' = Op("create_edge", NewEdge(scene), None)
        /\ UNCHANGED buttons

\* a write of a movement property of the Settings
SetMovement ==
    \E property \in {"rotational_movement", "recursive_movement", "label_movement"} :
    \E value \in BOOLEAN :
        /\ settings' = [BeginSettings(settings) EXCEPT ![property] = value]
        /\ scene' = Notify(BeginBound(scene), property, value)
        /\ lastOp' = Op(property, None, None)
        /\ UNCHANGED buttons

\* a write of settings.highlight_color
SetHighlightColor ==
    \E value \in HighlightColors :
        /\ settings' = [BeginSettings(settings) EXCEPT !.highlight_color = value]
        /\ scene' = Notify(BeginBound(scene), "highlight_color", value)
        /\ lastOp' = Op("highlight_color", None, None)
        /\ UNCHANGED buttons

\* the write of settings.palette without the binding of line 137: highlight_color
\* is not written
SetSettingsPalette_no_highlight ==
    \E palette \in Palettes :
        LET model == set_palette(BeginModel(settings.divisions), palette)
            s1 == Notify(BeginBound(scene), "colorMapChanged", get_color_map(model))
        IN  /\ settings' = [settings EXCEPT !.palette = palette, !.divisions = model]
            /\ scene' = s1
            /\ lastOp' = Op("palette", None, None)
            /\ UNCHANGED buttons

\* a write of settings.palette: the bindings of Settings.__init__ call
\* divisions.set_palette, which emits colorMapChanged, and write highlight_color
SetSettingsPalette ==
    \E palette \in Palettes :
        LET model == set_palette(BeginModel(settings.divisions), palette)
            s1 == Notify(BeginBound(scene), "colorMapChanged", get_color_map(model))
        IN  /\ settings' = [settings EXCEPT !.palette = palette,
                                            !.divisions = model,
                                            !.highlight_color = palette.highlight]
            /\ scene' = Notify(s1, "highlight_color", palette.highlight)
            /\ lastOp' = Op("palette", None, None)
            /\ UNCHANGED buttons

\* an empty scene and the Settings of the demo Window, with divisions X and Y
InitBound ==
    /\ scene = BoundScene
    /\ settings = [NewSettings EXCEPT !.divisions =
                       BeginModel(set_divisions_from_keys(@, <<"X", "Y">>))]
    /\ buttons = {}
    /\ lastOp = Op("init", None, None)

NextSettings ==
    \/ BoundCreateVertex
    \/ BoundCreateNode
    \/ BoundCreateEdge
    \/ SetMovement
    \/ SetHighlightColor
    \/ SetSettingsPalette

SpecSettings == InitBound /\ [][NextSettings]_vars

\* the slot of the object was called, and the last time with this value
Held(item, slot, value) ==
    {t \in scene.slots : t[1] = item /\ t[2] = slot} = {<<item, slot, value>>}

\* the edges create_edge has made
CreatedEdges == {<<"Edge", i>> : i \in 1..Len(scene.edges)}

\* the object follows the Settings: it holds the values its kind is bound to
FollowsSettings(item) ==
    /\ IsVertex(item) =>
          /\ Held(item, "set_rotational_setting", settings.rotational_movement)
          /\ Held(item, "set_recursive_setting", settings.recursive_movement)
    /\ Held(item, "set_highlight_color", settings.highlight_color)
    /\ (IsNode(item) \/ IsEdge(item)) =>
          /\ Held(LabelOf(item), "set_locked", ~settings.label_movement)
          /\ Held(LabelOf(item), "set_highlight_color", settings.highlight_color)

-----------------------------------------------------------------------------
(* Clearing the scene: SpecClear *)

\* clear without line 366: the bindings are kept
clear_keep_bindings(s) == [s EXCEPT !.items = {}, !.mouseGrabberItem = None]

\* GraphicsScene.clear: QGraphicsScene.clear removes and deletes every item of the
\* scene, and the binder drops every binding; hovered_item is not written
clear(s) == [s EXCEPT !.items = {}, !.mouseGrabberItem = None, !.binder = {}]

\* the objects made so far are now the objects made before the last clear(), and
\* the values they hold are no longer looked at
Clear ==
    /\ scene' = [clear(BeginBound(scene)) EXCEPT
                    !.cleared = scene.vertices \cup {<<"Edge", i>> : i \in 1..Len(scene.edges)},
                    !.slots = {}]
    /\ settings' = BeginSettings(settings)
    /\ lastOp' = Op("clear", None, None)
    /\ UNCHANGED buttons

\* the objects of SpecClear are nodes and edges, which between them have every kind
\* of binding
NextClear ==
    \/ BoundCreateNode
    \/ BoundCreateEdge
    \/ SetMovement
    \/ SetHighlightColor
    \/ SetSettingsPalette
    \/ Clear

SpecClear == InitBound /\ [][NextClear]_vars

\* the object a slot belongs to: the owner of a label, else the object itself
SlotOwner(item) ==
    IF item[1] = "NodeLabel" THEN <<"Node", item[2]>>
    ELSE IF item[1] = "EdgeLabel" THEN <<"Edge", item[2]>>
    ELSE item

\* C16: after clear() the binder of the scene holds no binding; no later write of
\* the Settings and no later change of the color map calls a slot of an object made
\* before the clear; an object made after the clear is bound and follows the
\* Settings.
C16_ClearUnbindsAll ==
    /\ lastOp.op = "clear" => scene.binder = {}
    /\ \A b \in scene.binder : SlotOwner(b[2]) \notin scene.cleared
    /\ \A c \in scene.calls : SlotOwner(c[1]) \notin scene.cleared
    /\ \A item \in (scene.vertices \cup CreatedEdges) \ scene.cleared :
          /\ <<"highlight_color", item, "set_highlight_color">> \in scene.binder
          /\ FollowsSettings(item)

\* a write of the palette after a clear, with a node made before the clear and a
\* node made after it: only the new node was called
C16_Witness ==
    /\ lastOp.op = "palette"
    /\ <<"Node", 1>> \in scene.cleared
    /\ <<"Node", 2>> \in scene.vertices \ scene.cleared
    /\ \E c \in scene.calls : c[1] = <<"Node", 2>> /\ c[2] = "update_colors"
    /\ ~\E c \in scene.calls : SlotOwner(c[1]) = <<"Node", 1>>

-----------------------------------------------------------------------------
(* Dragging a vertex: SpecDrag *)

\* the value a slot of the object s was last called with
SlotValue(s, item, slot) == (CHOOSE t \in s.slots : t[1] = item /\ t[2] = slot)[3]

Plus(p, delta) == <<p[1] + delta[1], p[2] + delta[2]>>

\* the move of a vertex by delta without the descent into the children of its
\* children: the vertex and its own children move
moveBy_one_level(s, vertex, delta, recursive) ==
    LET moved == {vertex} \cup
                 (IF recursive THEN {t[2] : t \in {u \in s.children : u[1] = vertex}} ELSE {})
    IN  [s EXCEPT !.pos = [v \in DOMAIN @ |-> IF v \in moved THEN Plus(@[v], delta) ELSE @[v]]]

\* the move of a vertex by delta: the vertex moves and, in recursive mode, each of
\* its children is moved by the same delta in the same way
RECURSIVE moveBy(_, _, _, _)
moveBy(s, vertex, delta, recursive) ==
    LET s1 == [s EXCEPT !.pos[vertex] = Plus(@, delta)]
        kids == {t[2] : t \in {u \in s.children : u[1] = vertex}}
        RECURSIVE each(_, _)
        each(sc, todo) ==
            IF todo = {}
            THEN sc
            ELSE LET child == CHOOSE c \in todo : TRUE
                 IN  each(moveBy(sc, child, delta, recursive), todo \ {child})
    IN  IF recursive THEN each(s1, kids) ELSE s1

\* a drag of a vertex by delta, in the mode the vertex was last set to
Vertex_mouseMoveEvent(s, vertex, delta) ==
    moveBy(s, vertex, delta, SlotValue(s, vertex, "set_recursive_setting"))

\* the moves of the pointer in one drag event
Deltas == {<<1, 0>>, <<0, 1>>, <<-1, -1>>}

\* a drag is a plain translation for a root, and for a child when rotational mode
\* is off; in rotational mode a child orbits its parent, which is not a translation
\* and is not among the drags of SpecDrag
Drag ==
    \E vertex \in scene.vertices, delta \in Deltas :
        /\ scene.drags < MaxDrags
        /\ \/ ParentsOf(scene, vertex) = {}
           \/ ~SlotValue(scene, vertex, "set_rotational_setting")
        /\ scene' = [Vertex_mouseMoveEvent(BeginBound(scene), vertex, delta)
                        EXCEPT !.drags = @ + 1]
        /\ settings' = BeginSettings(settings)
        /\ lastOp' = Op("drag", vertex, delta)
        /\ UNCHANGED buttons

\* a scene built the way addNodes builds one: node1 with child node2, vertex1 the
\* child of node2, and node3 a sibling of vertex1; pos holds the positions, drags
\* counts the drags
DragScene ==
    LET node1 == <<"Node", 1>>
        node2 == <<"Node", 2>>
        node3 == <<"Node", 3>>
        vertex1 == <<"Vertex", 1>>
        st == NewSettings
        s1 == bind_update(BoundScene, create_node(BoundScene, node1), st)
        s2 == addItem(s1, node1)
        s3 == bind_update(s2, create_node(s2, node2), st)
        s4 == bind_update(s3, add_child(s3, node1, node2, 2), st)
        s5 == bind_update(s4, create_vertex(s4, vertex1), st)
        s6 == bind_update(s5, add_child(s5, node2, vertex1, 1), st)
        s7 == bind_update(s6, create_node(s6, node3), st)
        s8 == bind_update(s7, add_sibling(s7, vertex1, node3, 1), st)
    IN  BeginBound(s8) @@ [pos |-> (node1 :> <<0, 0>>) @@ (node2 :> <<2, 0>>) @@
                                   (vertex1 :> <<3, 1>>) @@ (node3 :> <<4, 2>>),
                           drags |-> 0]

InitDrag ==
    /\ scene = DragScene
    /\ settings = NewSettings
    /\ buttons = {}
    /\ lastOp = Op("init", None, None)

NextDrag ==
    \/ Drag
    \/ SetMovement

SpecDrag == InitDrag /\ [][NextDrag]_vars

\* the vertices u with a chain of child links from vertex to u, vertex included
InSubtree(s, vertex, u) ==
    \E n \in 1..Cardinality(s.vertices) : \E path \in [1..n -> s.vertices] :
        /\ path[1] = vertex
        /\ path[n] = u
        /\ \A i \in 1..(n - 1) : \E t \in s.children : t[1] = path[i] /\ t[2] = path[i + 1]

\* C17: a drag by (dx, dy) of a root vertex in recursive mode moves every vertex of
\* its child-subtree by exactly (dx, dy) and no other vertex, a vertex joined to the
\* subtree by sibling edges only included.
C17_RecursiveRigidTranslation ==
    [][(/\ lastOp'.op = "drag"
        /\ ParentsOf(scene, lastOp'.a) = {}
        /\ settings.recursive_movement) =>
           \A u \in scene.vertices :
               scene'.pos[u] = IF InSubtree(scene, lastOp'.a, u)
                               THEN Plus(scene.pos[u], lastOp'.b)
                               ELSE scene.pos[u]
      ]_vars

\* node1, the root, was dragged in recursive mode: vertex1, the child of its child,
\* moved with it and node3, the sibling of vertex1, stayed
C17_Witness ==
    /\ lastOp.op = "drag"
    /\ lastOp.a = <<"Node", 1>>
    /\ settings.recursive_movement
    /\ scene.drags = 1
    /\ scene.pos[<<"Node", 1>>] = lastOp.b
    /\ scene.pos[<<"Vertex", 1>>] = Plus(<<3, 1>>, lastOp.b)
    /\ scene.pos[<<"Node", 3>>] = <<4, 2>>

-----------------------------------------------------------------------------
(* Claims about add_sibling, under SpecTopo *)

\* the step is the call add_sibling(a, b)
IsAddSiblingStep == lastOp'.op = "add_sibling"

\* C18: add_sibling(a, b, segments) creates one edge between a and b, registers it
\* in the sibling adjacency of both and not in the child adjacency, and adds the
\* edge to the scene; b enters the scene exactly when it was in none, and a vertex
\* a other than b is in the scene after the call exactly when it was before.
C18_AddSibling ==
    [][IsAddSiblingStep =>
        LET a == lastOp'.a
            b == lastOp'.b
            edge == NewEdge(scene)
        IN  /\ Len(scene'.edges) = Len(scene.edges) + 1
            /\ SubSeq(scene'.edges, 1, Len(scene.edges)) = scene.edges
            /\ scene'.edges[edge[2]].node1 = a
            /\ scene'.edges[edge[2]].node2 = b
            /\ scene'.siblings = scene.siblings \cup {<<a, b, edge>>, <<b, a, edge>>}
            /\ scene'.children = scene.children
            /\ scene'.items = scene.items \cup {edge, LabelOf(edge)} \cup
                              (IF b \in scene.items THEN {} ELSE {b} \cup ChildItems(b))
            /\ (a # b => (a \in scene'.items <=> a \in scene.items))
      ]_vars

\* add_sibling(a, b) was called with a in no scene: the edge and b are in the scene
\* and a is not
C18_Witness ==
    /\ lastOp.op = "add_sibling"
    /\ lastOp.a # lastOp.b
    /\ lastOp.a \notin scene.items
    /\ lastOp.b \in scene.items
    /\ <<"Edge", Len(scene.edges)>> \in scene.items
    /\ <<lastOp.a, lastOp.b, <<"Edge", Len(scene.edges)>>>> \in scene.siblings

-----------------------------------------------------------------------------
(* The mutations of a constructed DivisionListModel: SpecMutations *)

\* the values of the color edits: a color with a blank before it and no "#", and a
\* string that is no color
ColorValues == {<<" ", "f", "f", "f">>, <<"g">>}

SetDataColor ==
    \E row \in -1..Len(settings.divisions.divisions), value \in ColorValues, role \in Roles :
        LET call == setData(BeginModel(settings.divisions), row, value, role)
        IN  /\ settings' = [settings EXCEPT !.divisions = call.model]
            /\ lastOp' = Op("setData", [row |-> row, value |-> value, role |-> role],
                            call.result)
            /\ UNCHANGED <<scene, buttons>>

\* the model of a new Settings
InitMutations ==
    /\ scene = EmptyScene
    /\ settings = NewSettings
    /\ buttons = {}
    /\ lastOp = Op("init", None, None)

NextMutations ==
    \/ SetDivisionsFromKeys
    \/ SetPalette
    \/ SetDataColor

SpecMutations == InitMutations /\ [][NextMutations]_vars

\* the step is a mutation of the model that succeeded
IsMutationStep ==
    \/ lastOp'.op \in {"set_divisions_from_keys", "set_palette"}
    \/ lastOp'.op = "setData" /\ lastOp'.b = TRUE

\* C21: every successful mutation of a constructed model (set_divisions_from_keys,
\* set_palette, a setData that returns True) emits colorMapChanged within the call,
\* and every map it emits is get_color_map() of the model as the call leaves it.
C21_MutationEmitsNewMap ==
    [][IsMutationStep =>
          /\ settings'.divisions.emitted # << >>
          /\ \A i \in 1..Len(settings'.divisions.emitted) :
                 settings'.divisions.emitted[i] = get_color_map(settings'.divisions)
      ]_vars

\* a color edit of the second of two divisions succeeded and the map emitted holds
\* the new color for its key
C21_Witness ==
    /\ lastOp.op = "setData"
    /\ lastOp.b = TRUE
    /\ lastOp.a.row = 1
    /\ Len(settings.divisions.divisions) = 2
    /\ settings.divisions.divisions[1].key # settings.divisions.divisions[2].key
    /\ settings.divisions.emitted # << >>
    /\ settings.divisions.emitted[1][settings.divisions.divisions[2].key] = <<"#", "f", "f", "f">>

-----------------------------------------------------------------------------
(* The cascade of a palette write, under SpecSettings *)

\* the objects with a set_highlight_color slot: vertices, nodes, edges, labels
HighlightBound ==
    LET owners == scene.vertices \cup CreatedEdges
    IN  owners \cup UNION {ChildItems(item) : item \in owners}

\* C22: when the write settings.palette = P returns, highlight_color is
\* P.highlight, division i has the color P[i], the default color is P.default,
\* set_highlight_color of every vertex, node, edge and label was called with
\* P.highlight and update_colors of every node with the new color map.
C22_PaletteCascade ==
    lastOp.op = "palette" =>
        LET P == settings.palette
            model == settings.divisions
        IN  /\ settings.highlight_color = P.highlight
            /\ \A i \in 1..Len(model.divisions) :
                   model.divisions[i].color = PaletteColor(P, i - 1)
            /\ model.default_color = P.default
            /\ \A item \in HighlightBound :
                   <<item, "set_highlight_color", P.highlight>> \in scene.calls
            /\ \A node \in scene.vertices \cap Nodes :
                   <<node, "update_colors", get_color_map(model)>> \in scene.calls

\* the palette was set to Grayscale with a node, a vertex and an edge made
C22_Witness ==
    /\ lastOp.op = "palette"
    /\ settings.palette = Palette("Grayscale", "b")
    /\ scene.vertices \cap Nodes # {}
    /\ scene.vertices \cap PlainVertices # {}
    /\ CreatedEdges # {}
    /\ settings.divisions.divisions[2].color = PaletteColor(Palette("Grayscale", "b"), 1)
    /\ <<<<"EdgeLabel", 1>>, "set_highlight_color", Palette("Grayscale", "b").highlight>>
           \in scene.calls

-----------------------------------------------------------------------------
(* A color map held after the model changes: SpecSnapshot *)

\* the dict {d.key: d.color for d in self._divisions} of get_color_map: the
\* division colors by key, the last division of a key winning
ColorDict(m) ==
    [key \in {m.divisions[i].key : i \in 1..Len(m.divisions)} |-> get_color_map(m)[key]]

\* defaultdict.__getitem__ on the map get_color_map returned, with m the model as
\* it is at the time of the lookup: a stored key yields its value, any other key
\* calls the default factory lambda: self._default_color, stores what it returns
\* under the key and yields it
defaultdict_getitem(dict, m, key) ==
    IF key \in DOMAIN dict
    THEN [dict |-> dict, value |-> dict[key]]
    ELSE [dict |-> [k \in DOMAIN dict \cup {key} |->
                       IF k = key THEN m.default_color ELSE dict[k]],
          value |-> m.default_color]

\* a holder of the map (a subscriber of colorMapChanged, a caller of
\* get_color_map) looks a key up
ReadColorMap ==
    \E key \in Keys :
        LET read == defaultdict_getitem(scene.held, settings.divisions, key)
        IN  /\ scene' = [scene EXCEPT !.held = read.dict]
            /\ settings' = BeginSettings(settings)
            /\ lastOp' = Op("getitem", key, read.value)
            /\ UNCHANGED buttons

\* a model made with a list of names; held is the map get_color_map() returns
\* for it, in_force the color of every key when the map was made
InitSnapshot ==
    /\ \E names \in KeyLists(MaxKeys) :
           LET model == DivisionListModel(names, NewSettings.palette)
           IN  /\ settings = [NewSettings EXCEPT !.divisions = model]
               /\ scene = [held |-> ColorDict(model), in_force |-> get_color_map(model)]
    /\ buttons = {}
    /\ lastOp = Op("init", None, None)

NextSnapshot ==
    \/ SetDivisionsFromKeys
    \/ SetPalette
    \/ SetDataColor
    \/ ReadColorMap

SpecSnapshot == InitSnapshot /\ [][NextSnapshot]_vars

\* C23: a color map is an immutable snapshot. At any later time, after any
\* set_divisions_from_keys, set_palette or setData call on the model, a lookup of
\* any key, known or not, yields the color that was in force for the key when the
\* map was made.
C23_ColorMapIsSnapshot ==
    \A key \in Keys :
        defaultdict_getitem(scene.held, settings.divisions, key).value = scene.in_force[key]

-----------------------------------------------------------------------------
(* Styling the edges and the nodes: SpecStyle *)

\* float('inf'), above the segments of every edge of the model
InfSegments == MaxSegments + 1

DefaultStyles == {"Bubbles", "Bars", "Plain"}

\* the dict style_cutoff of styleEdges
StyleCutoff(style_default) ==
    CASE style_default = "Bubbles" -> "DotsWithText"
      [] style_default = "Bars" -> "Collapsed"
      [] style_default = "Plain" -> "PlainWithText"

\* the orders in which a loop can take the items of the set S
Orders(S) == {f \in [1..Cardinality(S) -> S] : \A i, j \in DOMAIN f : i # j => f[i] # f[j]}

\* the Edge objects and the Node objects among self.items()
SceneEdges(s) == {item \in s.items : IsEdge(item)}
SceneNodes(s) == {item \in s.items : IsNode(item)}

\* styleEdges without lines 293-294: a cutoff of 0 is a cutoff as any other
styleEdges_zero_cutoff(s, style_default, cutoff, edges) ==
    LET style_cutoff == StyleCutoff(style_default)
        StyleOf(edge) == IF s.edges[edge[2]].segments <= cutoff
                         THEN style_default ELSE style_cutoff
    IN  [s EXCEPT !.style = [k \in DOMAIN @ |->
                                IF <<"Edge", k>> \in s.items THEN StyleOf(<<"Edge", k>>)
                                ELSE @[k]],
                  !.delivered = [i \in DOMAIN edges |->
                                    <<"set_style", edges[i], StyleOf(edges[i])>>]]

\* styleEdges(style_default, cutoff); edges is the order of the generator
styleEdges(s, style_default, cutoff, edges) ==
    LET cutoff_ == IF cutoff = 0 THEN InfSegments ELSE cutoff
        style_cutoff == StyleCutoff(style_default)
        StyleOf(edge) == IF s.edges[edge[2]].segments <= cutoff_
                         THEN style_default ELSE style_cutoff
    IN  [s EXCEPT !.style = [k \in DOMAIN @ |->
                                IF <<"Edge", k>> \in s.items THEN StyleOf(<<"Edge", k>>)
                                ELSE @[k]],
                  !.delivered = [i \in DOMAIN edges |->
                                    <<"set_style", edges[i], StyleOf(edges[i])>>]]

\* styleNodes with one loop over the items: each item is handled where it comes
styleNodes_one_loop(s, nodes, edges) ==
    [s EXCEPT !.delivered = [i \in DOMAIN edges |-> <<"adjustPosition", edges[i]>>] \o
                            [i \in DOMAIN nodes |-> <<"adjust_radius", nodes[i]>>]]

\* styleNodes(a, b, c, d, e, f): the calls it makes, in order; nodes and edges are
\* the orders of the two generators
styleNodes(s, nodes, edges) ==
    [s EXCEPT !.delivered = [i \in DOMAIN nodes |-> <<"adjust_radius", nodes[i]>>] \o
                            [i \in DOMAIN edges |-> <<"adjustPosition", edges[i]>>]]

StyleEdges ==
    \E style_default \in DefaultStyles, cutoff \in 0..MaxCutoff :
    \E edges \in Orders(SceneEdges(scene)) :
        /\ scene' = styleEdges(scene, style_default, cutoff, edges)
        /\ lastOp' = Op("styleEdges", style_default, cutoff)
        /\ UNCHANGED <<settings, buttons>>

StyleNodes ==
    \E nodes \in Orders(SceneNodes(scene)), edges \in Orders(SceneEdges(scene)) :
        /\ scene' = styleNodes(scene, nodes, edges)
        /\ lastOp' = Op("styleNodes", None, None)
        /\ UNCHANGED <<settings, buttons>>

\* node1 with child node2 and vertex1 a sibling of node2, all in the scene, and a
\* third edge and a third node that were made and not added; style is the style
\* of each edge, "Initial" the one it is made with
StyleScene(segments1, segments2) ==
    LET node1 == <<"Node", 1>>
        node2 == <<"Node", 2>>
        node3 == <<"Node", 3>>
        vertex1 == <<"Vertex", 1>>
        s1 == addItem(create_node(EmptyScene, node1), node1)
        s2 == add_child(create_node(s1, node2), node1, node2, segments1)
        s3 == add_sibling(create_vertex(s2, vertex1), node2, vertex1, segments2)
        s4 == create_edge(create_node(s3, node3), node1, node3, MaxSegments)
    IN  s4 @@ [style |-> [k \in 1..Len(s4.edges) |-> "Initial"]]

InitStyle ==
    /\ \E segments1 \in 1..MaxSegments, segments2 \in 1..MaxSegments :
           scene = StyleScene(segments1, segments2)
    /\ settings = InitSettings
    /\ buttons = {}
    /\ lastOp = Op("init", None, None)

NextStyle ==
    \/ StyleEdges
    \/ StyleNodes

SpecStyle == InitStyle /\ [][NextStyle]_vars

\* the collapsed counterpart of a default style
Collapsed(style) ==
    IF style = "Bubbles" THEN "DotsWithText"
    ELSE IF style = "Bars" THEN "Collapsed" ELSE "PlainWithText"

\* C24: styleEdges(default_style, cutoff) with default_style one of Bubbles, Bars
\* and Plain gives every edge in the scene the style default_style when cutoff is 0
\* or the edge has at most cutoff segments, and the collapsed counterpart of
\* default_style otherwise; the style of an edge that is not in the scene stays.
C24_StyleEdges ==
    [][lastOp'.op = "styleEdges" =>
        \A k \in 1..Len(scene.edges) :
            scene'.style[k] =
                IF <<"Edge", k>> \notin scene.items
                THEN scene.style[k]
                ELSE IF lastOp'.b = 0 \/ scene.edges[k].segments <= lastOp'.b
                     THEN lastOp'.a
                     ELSE Collapsed(lastOp'.a)
      ]_vars

\* styleEdges(Bubbles, 3) on a scene with an edge of 3 segments and one of 4
C24_Witness ==
    /\ lastOp = Op("styleEdges", "Bubbles", 3)
    /\ scene.edges[1].segments = 3
    /\ scene.edges[2].segments = 4
    /\ scene.style[1] = "Bubbles"
    /\ scene.style[2] = "DotsWithText"
    /\ scene.style[3] = "Initial"


\* the positions of the calls of a method on an item among the calls delivered
CallsOf(method, item) ==
    {i \in DOMAIN scene.delivered : scene.delivered[i] = <<method, item>>}

\* C25: styleNodes calls adjust_radius of every Node in the scene exactly once and
\* adjustPosition of every Edge in the scene exactly once, calls nothing else, and
\* calls no adjustPosition before the last adjust_radius.
C25_StyleNodesOrder ==
    lastOp.op = "styleNodes" =>
        /\ \A node \in SceneNodes(scene) : Cardinality(CallsOf("adjust_radius", node)) = 1
        /\ \A edge \in SceneEdges(scene) : Cardinality(CallsOf("adjustPosition", edge)) = 1
        /\ Len(scene.delivered) =
               Cardinality(SceneNodes(scene)) + Cardinality(SceneEdges(scene))
        /\ \A i, j \in DOMAIN scene.delivered :
               (scene.delivered[i][1] = "adjust_radius" /\
                scene.delivered[j][1] = "adjustPosition") => i < j

\* styleNodes on the scene of two nodes and two edges: the second node's radius was
\* adjusted before the first edge was re-routed
C25_Witness ==
    /\ lastOp.op = "styleNodes"
    /\ Len(scene.delivered) = 4
    /\ scene.delivered[2] = <<"adjust_radius", <<"Node", 1>>>>
    /\ scene.delivered[3] = <<"adjustPosition", <<"Edge", 2>>>>

-----------------------------------------------------------------------------
(* The palette of rebuilt divisions, under SpecDivisions *)

\* the palette most recently passed to set_palette, or the one of the constructor:
\* _default_color is written by __init__ and by set_palette only, with its default
ActivePalette(m) == CHOOSE P \in Palettes : P.default = m.default_color

\* C26: after any sequence of set_palette and set_divisions_from_keys calls that
\* ends with set_divisions_from_keys(K), division i has the color P[i] (indices
\* from 0) of the palette P most recently passed to set_palette, or of the
\* constructor palette if there was no such call: the one whose default is the
\* default color.
C26_RebuildUsesActivePalette ==
    lastOp.op = "set_divisions_from_keys" =>
        \A i \in 1..Len(settings.divisions.divisions) :
            settings.divisions.divisions[i].color =
                PaletteColor(ActivePalette(settings.divisions), i - 1)

-----------------------------------------------------------------------------
(* The frame of the mutations, under SpecMutations *)

\* the keys of the divisions of a model, in order
KeysOf(m) == [i \in 1..Len(m.divisions) |-> m.divisions[i].key]

\* C27: set_palette(P) keeps the keys and their order and gives every division i
\* the color P[i], whatever color it had; a setData that returns True changes the
\* color of its row and nothing else, neither a key nor another color nor the
\* default color; a setData with a row out of range or a role other than EditRole
\* returns False and changes nothing.
C27_MutationFrames ==
    [][LET old == settings.divisions
           new == settings'.divisions
       IN  /\ lastOp'.op = "set_palette" =>
                 /\ KeysOf(new) = KeysOf(old)
                 /\ \A i \in 1..Len(new.divisions) :
                        new.divisions[i].color = PaletteColor(lastOp'.a, i - 1)
           /\ (lastOp'.op = "setData" /\ lastOp'.b = TRUE) =>
                 /\ lastOp'.a.role = "EditRole"
                 /\ lastOp'.a.row \in 0..(Len(old.divisions) - 1)
                 /\ KeysOf(new) = KeysOf(old)
                 /\ \A i \in 1..Len(old.divisions) :
                        i # lastOp'.a.row + 1 => new.divisions[i] = old.divisions[i]
                 /\ new.default_color = old.default_color
           /\ (/\ lastOp'.op = "setData"
               /\ \/ lastOp'.a.row \notin 0..(Len(old.divisions) - 1)
                  \/ lastOp'.a.role # "EditRole") =>
                 /\ lastOp'.b = FALSE
                 /\ new.divisions = old.divisions
                 /\ new.default_color = old.default_color
                 /\ new.emitted = << >>
      ]_vars

\* a color edit of the first of two divisions succeeded: the second has the color
\* of its palette still, the default color is the one of the palette
C27_Witness ==
    /\ lastOp.op = "setData"
    /\ lastOp.b = TRUE
    /\ lastOp.a.row = 0
    /\ Len(settings.divisions.divisions) = 2
    /\ settings.divisions.divisions[1].color = <<"#", "f", "f", "f">>
    /\ \E P \in Palettes : /\ settings.divisions.divisions[2].color = PaletteColor(P, 1)
                           /\ settings.divisions.default_color = P.default

-----------------------------------------------------------------------------
(* The pointer events on a scene that is cleared and refilled: SpecRefill *)

\* GraphicsScene.clear() between two events
SceneClear ==
    /\ scene' = clear(Begin(scene))
    /\ lastOp' = MouseOp("clear")
    /\ UNCHANGED <<settings, buttons>>

\* a node is made and added, as addManyNodes does; the nodes are numbered in the
\* order of their creation
AddNode ==
    \E item \in Nodes \ scene.vertices :
        /\ item[2] = Cardinality(scene.vertices \cap Nodes) + 1
        /\ scene' = addItem(create_node(Begin(scene), item), item)
        /\ lastOp' = MouseOp("addItem")
        /\ UNCHANGED <<settings, buttons>>

\* hovered_item is an object that clear() deleted
HoveredDeleted(s) == s.hovered_item # None /\ s.hovered_item \notin s.items

\* a call of a method of a deleted object can also raise (RuntimeError: Internal
\* C++ object already deleted) instead of running: mouseLeaveEvent then stops at
\* line 157 and mouseMoveEvent at line 200, after its hit test, and hovered_item
\* is not written
HoverRaises ==
    /\ HoveredDeleted(scene)
    /\ \/ /\ scene' = Begin(scene)
          /\ lastOp' = MouseOp("GraphicsSceneLeave")
       \/ /\ buttons = {}
          /\ \E under \in ItemsAt(scene, MaxPointer) : \E dist \in PointerDists(under) :
                 scene' = HitTest(Begin(scene), under, dist, FALSE, "None",
                                  settings.label_movement)
          /\ lastOp' = MouseOp("mouseMoveEvent")
    /\ UNCHANGED <<settings, buttons>>

NextRefill ==
    \/ MouseMove
    \/ MousePress
    \/ MouseRelease
    \/ SceneLeave
    \/ SceneClear
    \/ AddNode
    \/ HoverRaises

SpecRefill == Init /\ [][NextRefill]_vars

\* C28: in every state reachable by pointer events, additions of items and
\* clear(), hovered_item is None or an item of the scene; after clear() it is None,
\* and no later event calls hoverLeaveEvent of an item the clear removed.
C28_HoveredItemLive ==
    /\ scene.hovered_item = None \/ scene.hovered_item \in scene.items
    /\ \A i \in DOMAIN scene.delivered :
           scene.delivered[i][1] = "hoverLeaveEvent" =>
               scene.delivered[i][2] \in scene.items \/ lastOp.op = "clear"

-----------------------------------------------------------------------------
(* What a press can grab, under Spec *)

\* the step is a press of the left button
IsLeftPressStep ==
    lastOp'.op = "mousePressEvent" /\ buttons' = buttons \cup {"LeftButton"} /\ buttons' # buttons

-----------------------------------------------------------------------------
(* The hover after a release, under Spec *)

\* the step is a release of the left button that ends a grab, with no other button
\* held
IsLastReleaseStep ==
    /\ lastOp'.op = "mouseReleaseEvent"
    /\ scene.mouseGrabberItem # None
    /\ buttons = {"LeftButton"}
    /\ buttons' = {}

\* within such a release the hover hit-test (edges not ignored) is run, hovered_item
\* becomes its result, and the grabbed item's mouseReleaseEvent is followed by the
\* handlers of the hover transition
ReleaseResyncsHover ==
    IsLastReleaseStep =>
        /\ scene'.mouseGrabberItem = None
        /\ scene'.hit.pc = "done"
        /\ ~scene'.hit.ignore_edges
        /\ scene'.hovered_item = scene'.hit.result
        /\ scene'.delivered = << <<"mouseReleaseEvent", scene.mouseGrabberItem>> >> \o
                              HoverEvents(scene.hovered_item, scene'.hit.result)

\* the step starts a grab or is made under a grab that lasts
IsGrabStep == scene'.mouseGrabberItem # None

\* C30 as stated: hover is re-synchronised on the release that ends a grab, and
\* while the grab lasted hovered_item kept the value it had before the press
C30_HoverKeptDuringGrab ==
    [][/\ ReleaseResyncsHover
       /\ IsGrabStep => scene'.hovered_item = scene.hovered_item
      ]_vars

\* C30: a release of the left button that ends a grab with no other button held
\* runs the hover hit-test at its position within the event: hovered_item is the
\* item found and the leave / enter (or move) handlers were called after the
\* mouseReleaseEvent of the grabbed item. From the press to the release no press,
\* motion or double click changes hovered_item; a GraphicsSceneLeave event under the
\* grab sets it to None.
C30_HoverResyncOnRelease ==
    [][/\ ReleaseResyncsHover
       /\ IsGrabStep =>
             scene'.hovered_item = IF lastOp'.op = "GraphicsSceneLeave"
                                   THEN None
                                   ELSE scene.hovered_item
      ]_vars

\* the release that ended a grab found another item under the pointer than the one
\* hovered during the grab: release, leave, enter
C30_Witness ==
    /\ lastOp.op = "mouseReleaseEvent"
    /\ lastOp.b # None
    /\ buttons = {}
    /\ lastOp.a # None
    /\ scene.hovered_item # None
    /\ scene.hovered_item # lastOp.a
    /\ scene.delivered = << <<"mouseReleaseEvent", lastOp.b>>,
                           <<"hoverLeaveEvent", lastOp.a>>,
                           <<"hoverEnterEvent", scene.hovered_item>> >>

=============================================================================
